---- MODULE Spec2Model ----
(***************************************************************************)
(* A model of the tool-calling orchestration loop of                       *)
(* src/core/orchestrator.py (class Orchestrator) and of the helpers it     *)
(* calls (src/agents/base_agent.py, src/core/config.py).                   *)
(*                                                                         *)
(* Texts are sequences of tokens.  A token is either one of the markers    *)
(* the code searches for, a whitespace character, a piece of ordinary      *)
(* text, or a JSON document the model could write between tool-call        *)
(* markers.  Python's None is written NoneValue.                           *)
(***************************************************************************)
EXTENDS Integers, Sequences, FiniteSets, TLC

\* ------------------------------------------------------------------ bounds
\* largest MAX_TOOL_ITERATIONS explored
MaxCap == 2
\* largest max_history explored
MaxHist == 1
\* chat turns per behaviour
MaxTurns == 2
\* primary LLM calls per behaviour
MaxCalls == 3
\* value of the max_mem_reasoning_iterations parameter
MaxMemIter == 2
\* longest text handed to _handle_tool_calls in SpecHandle
MaxTextLen == 3
\* messages of a history handed to _prune_history_for_api on its own
MaxPruneLen == 3
MaxCleanLen == 4
MaxDecls == 2
MaxPrefOps == 3

\* ------------------------------------------------------------------ tokens
TOOL_OPEN == "<tool_call>"
TOOL_CLOSE == "</tool_call>"
THINK_OPEN == "<think>"
THINK_CLOSE == "</think>"
IM_END == "<|im_end|>"
IM_START == "<|im_start|>"
WS == " "
TXT == "txt"
AMP_ENT == "&amp;"
AMP == "&"
SENTINEL == "No specific memory context deemed necessary or found."
NoneValue == <<"None">>

\* JSON documents an LLM can put inside a tool-call block
J_ENV == "{name:get_env,arguments:{var_name:PATH}}"
J_ENV_BADARGS == "{name:get_env,arguments:{nope:1}}"
J_ENV_NONMAP == "{name:get_env,arguments:5}"
J_CMD_RAISES == "{name:run_command,arguments:{command:7}}"
J_FOO == "{name:foo,arguments:{}}"
J_NONAME == "{arguments:{}}"
J_EMPTYNAME == "{name:'',arguments:{}}"
J_LISTNAME == "{name:[foo],arguments:{}}"
J_NUMNAME == "{name:5,arguments:{}}"
J_NONOBJ == "[1]"
J_SEARCH_CONVO == "{name:search_past_conversations,arguments:{search_query:q}}"
J_SEARCH_DOCS == "{name:search_documents,arguments:{search_query:q}}"

JsonTexts ==
    { J_ENV, J_ENV_BADARGS, J_ENV_NONMAP, J_CMD_RAISES, J_FOO, J_NONAME,
      J_EMPTYNAME, J_LISTNAME, J_NUMNAME, J_NONOBJ, J_SEARCH_CONVO, J_SEARCH_DOCS }

\* ------------------------------------------------------------ text helpers
IsWs(t) == t = WS

RECURSIVE LStrip(_)
LStrip(s) == IF s # <<>> /\ IsWs(Head(s)) THEN LStrip(Tail(s)) ELSE s

RECURSIVE RStrip(_)
RStrip(s) ==
    IF s # <<>> /\ IsWs(s[Len(s)]) THEN RStrip(SubSeq(s, 1, Len(s) - 1)) ELSE s

Strip(s) == LStrip(RStrip(s))

StartsWith(s, p) == Len(p) <= Len(s) /\ SubSeq(s, 1, Len(p)) = p

Contains(s, t) == \E i \in 1..Len(s) : s[i] = t

\* str.find: index of the first occurrence at or after position from, 0 if none
RECURSIVE FindFrom(_, _, _)
FindFrom(s, t, from) ==
    IF from > Len(s) THEN 0
    ELSE IF s[from] = t THEN from
    ELSE FindFrom(s, t, from + 1)

\* str.rfind: index of the last occurrence at or before position from, 0 if none
RECURSIVE RFindFrom(_, _, _)
RFindFrom(s, t, from) ==
    IF from < 1 THEN 0
    ELSE IF s[from] = t THEN from
    ELSE RFindFrom(s, t, from - 1)

RECURSIVE RemoveToken(_, _)
RemoveToken(s, t) ==
    IF s = <<>> THEN <<>>
    ELSE IF Head(s) = t THEN RemoveToken(Tail(s), t)
    ELSE <<Head(s)>> \o RemoveToken(Tail(s), t)

\* ------------------------------------------------------- TOOL_CALL_PATTERN
\* TOOL_CALL_PATTERN.finditer(text): the non-greedy matches, left to right.
\* Each match is [lo, hi]: the positions of its opening and closing marker.
RECURSIVE FindIter(_, _)
FindIter(s, from) ==
    LET lo == FindFrom(s, TOOL_OPEN, from)
        hi == IF lo = 0 THEN 0 ELSE FindFrom(s, TOOL_CLOSE, lo + 1)
    IN  IF lo = 0 \/ hi = 0 THEN <<>>
        ELSE <<[lo |-> lo, hi |-> hi]>> \o FindIter(s, hi + 1)

Matches(s) == FindIter(s, 1)

\* match.group(1)
Group1(s, m) == SubSeq(s, m.lo + 1, m.hi - 1)

\* TOOL_CALL_PATTERN.sub("", text)
RECURSIVE PatternSubFrom(_, _)
PatternSubFrom(s, from) ==
    LET lo == FindFrom(s, TOOL_OPEN, from)
        hi == IF lo = 0 THEN 0 ELSE FindFrom(s, TOOL_CLOSE, lo + 1)
    IN  IF lo = 0 \/ hi = 0 THEN SubSeq(s, from, Len(s))
        ELSE SubSeq(s, from, lo - 1) \o PatternSubFrom(s, hi + 1)

PatternSub(s) == PatternSubFrom(s, 1)

\* ----------------------------------------------------------------- json
\* json.loads(text): ok, or JSONDecodeError.  Leading and trailing whitespace
\* is accepted; anything but exactly one JSON document is an error.
JsonLoads(s) ==
    LET t == Strip(s)
    IN  IF Len(t) = 1 /\ t[1] \in JsonTexts
        THEN [ok |-> TRUE, val |-> t[1]]
        ELSE [ok |-> FALSE, val |-> ""]

\* isinstance(value, dict)
IsDict(j) == j # J_NONOBJ

\* Python values a "name" entry can hold that are not plain tool names
NONE_NAME == "<None>"
LIST_NAME == "<list [foo]>"
NUM_NAME == "<int 5>"

\* tool_call_data.get("name")
GetName(j) ==
    CASE j \in {J_ENV, J_ENV_BADARGS, J_ENV_NONMAP} -> "get_env"
      [] j = J_CMD_RAISES -> "run_command"
      [] j = J_FOO -> "foo"
      [] j = J_NONAME -> NONE_NAME
      [] j = J_EMPTYNAME -> ""
      [] j = J_LISTNAME -> LIST_NAME
      [] j = J_NUMNAME -> NUM_NAME
      [] j = J_SEARCH_CONVO -> "search_past_conversations"
      [] j = J_SEARCH_DOCS -> "search_documents"

\* bool(name): None and the empty string are falsy
Truthy(n) == n \notin {NONE_NAME, ""}

\* hash(name) succeeds: a list is unhashable
Hashable(n) == n # LIST_NAME

\* tool_call_data.get("arguments", {}), by what calling method(**arguments) does:
\* "ok" the call returns, "bad" a mapping the signature rejects (TypeError),
\* "nonmap" not a mapping (TypeError), "raises" the method body raises
GetArguments(j) ==
    CASE j = J_ENV_BADARGS -> "bad"
      [] j = J_ENV_NONMAP -> "nonmap"
      [] j = J_CMD_RAISES -> "raises"
      [] OTHER -> "ok"

\* --------------------------------------------------------------- registry
\* self.tool_to_agent_map after _collect_all_tool_schemas (two of its tools)
tool_to_agent_map ==
    [n \in {"get_env", "run_command"} |-> "SystemEnvironmentAgent"]

\* hasattr(agent, tool_name) and callable(getattr(agent, tool_name))
HasMethod(agent, n) ==
    agent = "SystemEnvironmentAgent" /\ n \in {"get_env", "run_command"}

ERR_INCORRECT_ARGS == "[Error: Incorrect arguments for tool."
ERR_EXECUTING == "[Error executing tool."
ERR_NOT_IN_AGENT == "[Error: Tool not found in agent."
ERR_MISSING_NAME == "[Error: Tool call missing 'name'. Call:"
ERR_NOT_RECOGNIZED == "[Error: Tool is not recognized or not mapped to any agent.]"
ERR_INVALID_JSON == "[Error: Invalid JSON in tool call. Stripped content:"
CLOSE_BRACKET == "]"
TOOL_VALUE == "[Value of 'PATH': /bin]"

\* Agent.execute_tool: TypeError and Exception become error strings
ExecuteTool(agent, n, args) ==
    IF HasMethod(agent, n)
    THEN CASE args = "ok" -> [exc |-> "", content |-> <<TOOL_VALUE>>]
           [] args \in {"bad", "nonmap"} ->
                [exc |-> "", content |-> <<ERR_INCORRECT_ARGS, n, CLOSE_BRACKET>>]
           [] args = "raises" ->
                [exc |-> "", content |-> <<ERR_EXECUTING, n, CLOSE_BRACKET>>]
    ELSE [exc |-> "", content |-> <<ERR_NOT_IN_AGENT, n, CLOSE_BRACKET>>]

\* ---------------------------------------------------------------- messages
Msg(role, content) ==
    [role |-> role, content |-> content, name |-> "", tool_call_id |-> "",
     has_tool_calls |-> FALSE, tool_calls |-> <<>>]

ToolMsg(id, name, content) ==
    [role |-> "tool", content |-> content, name |-> name, tool_call_id |-> id,
     has_tool_calls |-> FALSE, tool_calls |-> <<>>]

\* ------------------------------------------------------ _handle_tool_calls
\* One pass of the loop over the matches.  acc is the state of the call so
\* far: exc (the exception that left the function, "" while none has),
\* calls (tool_calls_found), results (tool_results_for_history) and executed
\* (the names whose agent method was invoked, in the order of invocation).
HandleOne(acc, inner) ==
    LET stripped == Strip(inner)
        parsed == JsonLoads(stripped)
        j == parsed.val
        n == GetName(j)
        found == Append(acc.calls, j)
    IN  IF ~parsed.ok
        THEN [acc EXCEPT !.results = Append(@,
                 ToolMsg("parse_error_" \o ToString(Len(acc.results)), "json_parse_error",
                         <<ERR_INVALID_JSON>> \o stripped \o <<CLOSE_BRACKET>>))]
        ELSE IF ~IsDict(j)
        THEN [acc EXCEPT !.exc = "AttributeError", !.calls = found]
        ELSE IF ~Truthy(n)
        THEN [acc EXCEPT !.calls = found,
                 !.results = Append(@, ToolMsg(n, n,
                     <<ERR_MISSING_NAME>> \o stripped \o <<CLOSE_BRACKET>>))]
        ELSE IF ~Hashable(n)
        THEN [acc EXCEPT !.exc = "TypeError", !.calls = found]
        ELSE IF n \in DOMAIN tool_to_agent_map
        THEN LET r == ExecuteTool(tool_to_agent_map[n], n, GetArguments(j))
             IN  IF r.exc # ""
                 THEN [acc EXCEPT !.exc = r.exc, !.calls = found,
                          !.executed = Append(@, n)]
                 ELSE [acc EXCEPT !.calls = found, !.executed = Append(@, n),
                          !.results = Append(@, ToolMsg(n, n, r.content))]
        ELSE [acc EXCEPT !.calls = found,
                 !.results = Append(@, ToolMsg(n, n, <<ERR_NOT_RECOGNIZED>>))]

\* a loop that takes the matches from the last to the first
RECURSIVE HandleLoopLastFirst(_, _, _)
HandleLoopLastFirst(acc, s, ms) ==
    IF ms = <<>> \/ acc.exc # "" THEN acc
    ELSE HandleLoopLastFirst(HandleOne(acc, Group1(s, ms[Len(ms)])), s,
                             SubSeq(ms, 1, Len(ms) - 1))

RECURSIVE HandleLoop(_, _, _)
HandleLoop(acc, s, ms) ==
    IF ms = <<>> \/ acc.exc # "" THEN acc
    ELSE HandleLoop(HandleOne(acc, Group1(s, Head(ms))), s, Tail(ms))

HandleStart == [exc |-> "", calls |-> <<>>, results |-> <<>>, executed |-> <<>>]

\* _handle_tool_calls(assistant_content): finditer(None) raises TypeError
HandleToolCalls(content) ==
    IF content = NoneValue THEN [HandleStart EXCEPT !.exc = "TypeError"]
    ELSE HandleLoop(HandleStart, content, Matches(content))

\* ------------------------------------------------- final-answer cleaning
\* a cut after the first closing marker instead of the last
CleanThinkFirstClose(s) ==
    LET e == FindFrom(s, THINK_CLOSE, 1)
        b == FindFrom(s, THINK_OPEN, 1)
    IN  IF e # 0 THEN LStrip(SubSeq(s, e + 1, Len(s)))
        ELSE IF b # 0 THEN RStrip(SubSeq(s, 1, b - 1))
        ELSE s

\* chat, lines 363-373: the reasoning block is cut from the chosen text
CleanThink(s) ==
    LET e == RFindFrom(s, THINK_CLOSE, Len(s))
        b == FindFrom(s, THINK_OPEN, 1)
    IN  IF e # 0 THEN LStrip(SubSeq(s, e + 1, Len(s)))
        ELSE IF b # 0
        THEN IF StartsWith(Strip(s), <<THINK_OPEN>>) THEN <<>>
             ELSE RStrip(SubSeq(s, 1, b - 1))
        ELSE s

\* chat, lines 363-380: final_user_visible_response
FinalVisible(s) ==
    Strip(RemoveToken(RemoveToken(PatternSub(CleanThink(s)), IM_END), IM_START))

\* html.unescape
HtmlUnescape(s) == [i \in 1..Len(s) |-> IF s[i] = AMP_ENT THEN AMP ELSE s[i]]

\* ------------------------------------------------------ _get_llm_response
ERR_TIMEOUT == "[Error: API request timed out.]"
ERR_API_FAILED == "[Error: API request failed."
ERR_PARSE_API == "[Error: Could not parse API response.]"

Block(j) == <<TOOL_OPEN, j, TOOL_CLOSE>>

\* what a successful primary call can answer: the message's content (null is
\* NoneValue) and the provider's separate reasoning field (absent is NoneValue)
LLMResponses ==
    { [content |-> <<TXT, AMP_ENT>>, reasoning |-> <<TXT>>],
      [content |-> Block(J_ENV) \o Block(J_FOO), reasoning |-> NoneValue],
      [content |-> Block(TXT), reasoning |-> NoneValue],
      [content |-> Block(J_NONOBJ), reasoning |-> NoneValue],
      [content |-> <<TXT>>, reasoning |-> Block(J_ENV)],
      [content |-> NoneValue, reasoning |-> NoneValue] }

\* what the body of a non-2xx answer can hold: any text, a tool-call block
\* included (a body without one gives an error text of the same shape as a
\* timeout's)
ErrorBodies == { Block(TXT) }

\* The outcomes of requests.post, raise_for_status and response.json
LLMOutcomes ==
    [kind : {"ok"}, resp : LLMResponses, body : {<<>>}]
    \cup [kind : {"timeout", "bad_json"},
          resp : {[content |-> <<>>, reasoning |-> NoneValue]}, body : {<<>>}]
    \cup [kind : {"http_error"},
          resp : {[content |-> <<>>, reasoning |-> NoneValue]}, body : ErrorBodies]

\* lines 663-684: llm_generated_text_for_history
TextForHistory(content, reasoning) ==
    LET c == IF content = NoneValue THEN <<>> ELSE content
        think_block == <<THINK_OPEN, WS>> \o Strip(reasoning) \o <<WS, THINK_CLOSE>>
    IN  IF reasoning # NoneValue /\ Strip(reasoning) # <<>>
        THEN IF StartsWith(Strip(c), think_block) THEN c
             ELSE think_block \o (IF c # <<>> THEN <<WS>> ELSE <<>>) \o c
        ELSE c

\* a _get_llm_response that hands out the history text for tool parsing too
LlmReturnOneText(o) ==
    CASE o.kind = "ok" ->
            [text |-> TextForHistory(o.resp.content, o.resp.reasoning),
             parse |-> TextForHistory(o.resp.content, o.resp.reasoning)]
      [] o.kind = "timeout" -> [text |-> <<ERR_TIMEOUT>>, parse |-> <<ERR_TIMEOUT>>]
      [] o.kind = "http_error" ->
            [text |-> <<ERR_API_FAILED>> \o o.body \o <<CLOSE_BRACKET>>,
             parse |-> <<ERR_API_FAILED>> \o o.body \o <<CLOSE_BRACKET>>]
      [] o.kind = "bad_json" -> [text |-> <<ERR_PARSE_API>>, parse |-> <<ERR_PARSE_API>>]

\* lines 649-711: the pair _get_llm_response returns for an outcome of the call
LlmReturn(o) ==
    CASE o.kind = "ok" ->
            [text |-> TextForHistory(o.resp.content, o.resp.reasoning),
             parse |-> o.resp.content]
      [] o.kind = "timeout" -> [text |-> <<ERR_TIMEOUT>>, parse |-> <<ERR_TIMEOUT>>]
      [] o.kind = "http_error" ->
            [text |-> <<ERR_API_FAILED>> \o o.body \o <<CLOSE_BRACKET>>,
             parse |-> <<ERR_API_FAILED>> \o o.body \o <<CLOSE_BRACKET>>]
      [] o.kind = "bad_json" -> [text |-> <<ERR_PARSE_API>>, parse |-> <<ERR_PARSE_API>>]

\* ------------------------------------------------------------ history prune
Max(a, b) == IF a >= b THEN a ELSE b

\* the Python slice s[-n:]: the last n items, and the whole list when n = 0
NegSlice(s, n) == IF n = 0 THEN s ELSE SubSeq(s, Max(1, Len(s) - n + 1), Len(s))

\* a turn-start prune that keeps the tail only
TurnStartPruneDropsSystem(msgs, mh) ==
    IF Len(msgs) > mh * 2 + 1 THEN NegSlice(msgs, mh * 2) ELSE msgs

\* an in-loop prune that keeps one message more
InLoopPruneKeepsOneMore(msgs, mh, k) ==
    IF Len(msgs) > mh * 3 + 1 + k THEN <<msgs[1]>> \o NegSlice(msgs, mh * 3 + k + 1)
    ELSE msgs

\* chat, lines 317-318
TurnStartPrune(msgs, mh) ==
    IF Len(msgs) > mh * 2 + 1 THEN <<msgs[1]>> \o NegSlice(msgs, mh * 2) ELSE msgs

\* chat, lines 348-349
InLoopPrune(msgs, mh, k) ==
    IF Len(msgs) > mh * 3 + 1 + k THEN <<msgs[1]>> \o NegSlice(msgs, mh * 3 + k)
    ELSE msgs

\* ------------------------------------------------------------------- state
VARIABLES
    max_history,        \* self.max_history
    max_tool_iterations,\* MAX_TOOL_ITERATIONS
    DEBUG,              \* core.config.DEBUG
    messages,           \* self.messages, the canonical history
    pc,                 \* where chat stands: idle, mem_llm, mem_finish,
                        \* generating, dispatching, finalizing
    user_input,         \* chat's argument
    synth,              \* synthesized_context_for_main_llm
    iteration,          \* the main loop's counter
    cur_text,           \* current_llm_response_text_for_history
    cur_content,        \* current_llm_response_content_for_tool_parse
    final_output,       \* final_llm_output_for_user_processing
    cap_reached,        \* the loop ended through its else clause
    outcome,            \* how the last chat call ended: none, returned, raised
    returned,           \* what it returned
    raised_by,          \* the statement that raised
    handled,            \* what the last _handle_tool_calls did
    appended,           \* the messages the last loop iteration appended
    gens,               \* primary LLM calls of this turn
    llm_failed,         \* number of this turn's first failed primary call, 0 if none
    logged,             \* log_interaction calls of this turn that succeeded
    turns,              \* chat calls so far
    calls,              \* primary LLM calls so far
    mem_messages,       \* memory_reasoner_messages
    mem_iter,           \* the sub-loop's counter
    final_synthesis,    \* final_synthesis
    trace_call,         \* the call of log_reasoning_trace being made, if any
    prompt,             \* api_payload_messages of this turn's last primary call
    doc_snippets,       \* what query_knowledge_base did; unset once chat is
                        \* past line 308, where it is read for the last time
    convo_snippets,     \* likewise for recall_relevant_interactions
    p_hist,             \* SpecPrune: the argument of _prune_history_for_api
    p_out,              \* SpecPrune: what the call returned
    p_pc,               \* SpecPrune: start, done, again (off otherwise)
    h_text,             \* SpecHandle: the argument of _handle_tool_calls
    h_out,              \* SpecHandle: what the call did
    h_pc,               \* SpecHandle: start, done (off under Spec)
    c_text,             \* SpecClean: final_llm_output_for_user_processing
    c_out,              \* SpecClean: final_user_visible_response
    c_pc,               \* SpecClean: start, done (off otherwise)
    k_agents,           \* SpecCollect: self.agents, in insertion order
    k_tool_to_agent_map,\* SpecCollect: self.tool_to_agent_map
    k_all_tool_schemas, \* SpecCollect: self.all_tool_schemas
    k_warnings,         \* SpecCollect: the duplicate-name warnings printed
    k_i,                \* SpecCollect: position of the loop over the agents
    k_j,                \* SpecCollect: position of the loop over its schemas
    k_pc,               \* SpecCollect: start, agents, done (off otherwise)
    s_conn,             \* SpecPref: self.conn of the StructuredMemory: open, none
    user_preferences,   \* SpecPref: the rows of table user_preferences
    s_next_id,          \* SpecPref: the next AUTOINCREMENT id
    s_hist,             \* SpecPref: the calls so far that changed or could
                        \* change the table: stores that returned True, deletes
    s_ret,              \* SpecPref: what the last call returned
    s_all,              \* SpecPref: what get_all_preferences returned, when
                        \* it is the last call
    s_pc                \* SpecPref: ready (off otherwise)

cfgVars == <<max_history, max_tool_iterations, DEBUG>>
memVars == <<mem_messages, mem_iter, final_synthesis, trace_call>>
loopVars == <<iteration, cur_text, cur_content, final_output, cap_reached, handled,
              appended, gens, llm_failed>>
endVars == <<outcome, returned, raised_by, logged>>
handleVars == <<h_text, h_out, h_pc>>
pruneVars == <<p_hist, p_out, p_pc>>
cleanVars == <<c_text, c_out, c_pc>>
collectVars == <<k_agents, k_tool_to_agent_map, k_all_tool_schemas, k_warnings,
                 k_i, k_j, k_pc>>
prefVars == <<s_conn, user_preferences, s_next_id, s_hist, s_ret, s_all, s_pc>>
unitVars == <<cleanVars, collectVars, prefVars>>
pureVars == <<handleVars, pruneVars, unitVars>>
preVars == <<doc_snippets, convo_snippets>>
chatVars == <<cfgVars, messages, pc, user_input, synth, loopVars, endVars, turns, calls,
              memVars, prompt, preVars>>
vars == <<chatVars, pureVars>>

SYSTEM_PROMPT == "system prompt"
USER_TEXT == "what's 2+2"
UserInputs == { <<USER_TEXT>> }

\* --------------------------------------------------- _prune_history_for_api
\* Two pieces of text that read "<think>" once they stand side by side
TH_HEAD == "<th"
TH_TAIL == "ink>"

\* A string as the sequence of its tokens: the two pieces, once adjacent, are
\* the opening marker
RECURSIVE Canon(_)
Canon(s) ==
    IF Len(s) < 2 THEN s
    ELSE IF s[1] = TH_HEAD /\ s[2] = TH_TAIL
         THEN <<THINK_OPEN>> \o Canon(SubSeq(s, 3, Len(s)))
         ELSE <<s[1]>> \o Canon(Tail(s))

\* index of the first token at or after from that is not whitespace
RECURSIVE SkipWs(_, _)
SkipWs(s, from) ==
    IF from <= Len(s) /\ IsWs(s[from]) THEN SkipWs(s, from + 1) ELSE from

\* re.sub(r"<think>.*?</think>\s*", "", text, flags=re.DOTALL): one pass over
\* the text, left to right; what replaces a match is not searched again
RECURSIVE ThinkSubFrom(_, _)
ThinkSubFrom(s, from) ==
    LET lo == FindFrom(s, THINK_OPEN, from)
        hi == IF lo = 0 THEN 0 ELSE FindFrom(s, THINK_CLOSE, lo + 1)
    IN  IF lo = 0 \/ hi = 0 THEN SubSeq(s, from, Len(s))
        ELSE SubSeq(s, from, lo - 1) \o ThinkSubFrom(s, SkipWs(s, hi + 1))

ThinkSub(s) == Canon(ThinkSubFrom(s, 1))

\* re.search(r"<think>.*?</think>", text, re.DOTALL) finds a block
HasThinkBlock(s) ==
    LET lo == FindFrom(s, THINK_OPEN, 1)
    IN  lo # 0 /\ FindFrom(s, THINK_CLOSE, lo + 1) # 0

TOOL_RESP_OPEN == "<tool_response>"
TOOL_RESP_CLOSE == "</tool_response>"
NEWLINE == "\n"
PERIOD == "."

\* a scan that takes every user message, wrapped tool results too
IsAnyUser(msg) == msg.role = "user"

\* line 265: a user message that is not a wrapped tool result
IsGenuineUser(msg) ==
    msg.role = "user" /\ ~StartsWith(Strip(msg.content), <<TOOL_RESP_OPEN>>)

\* lines 262-267: last_true_user_turn_idx, counted from 1, 0 for Python's -1
RECURSIVE LastTrueUserIdx(_, _)
LastTrueUserIdx(msgs, i) ==
    IF i < 1 THEN 0
    ELSE IF IsGenuineUser(msgs[i]) THEN i
    ELSE LastTrueUserIdx(msgs, i - 1)

\* a prune that strips the assistant messages of the turn in progress too
StripsEveryAssistant(msg, i, idx) == msg.role = "assistant"

\* line 282: the messages whose reasoning is stripped
ShouldStrip(msg, i, idx) == msg.role = "assistant" /\ i < idx

\* lines 283-287: new_msg with its cleaned content
StrippedCopy(msg) == [msg EXCEPT !.content = Strip(ThinkSub(msg.content))]

\* _prune_history_for_api(messages_history)
PruneHistoryForApi(msgs) ==
    LET idx == LastTrueUserIdx(msgs, Len(msgs))
    IN  IF idx = 0 THEN msgs
        ELSE [ i \in 1..Len(msgs) |->
                 IF ShouldStrip(msgs[i], i, idx) THEN StrippedCopy(msgs[i])
                 ELSE msgs[i] ]

\* ------------------------------------------------ the transmitted prompt
HINT_HEAD == "HINT: The following synthesized memory context may be relevant to the user's query:\n<synthesized_context>\n"
HINT_TAIL == "\n</synthesized_context>"

\* a message of api_payload_messages
ApiMsg(role, content, name) == [role |-> role, content |-> content, name |-> name]

\* lines 611-620: the envelope around a tool result
ToolResponseEnvelope(tool_output_string) ==
    LET dotted == IF tool_output_string # <<>>
                     /\ (Strip(tool_output_string) = <<>>
                         \/ Strip(tool_output_string)[Len(Strip(tool_output_string))] # PERIOD)
                  THEN tool_output_string \o <<PERIOD>>
                  ELSE tool_output_string
    IN  <<TOOL_RESP_OPEN, NEWLINE>> \o Strip(dotted) \o <<NEWLINE, TOOL_RESP_CLOSE>>

\* a payload that passes tool messages on as they are
PayloadKeepsToolRole(msg) == ApiMsg(msg.role, msg.content, "")

\* lines 610-625: what a message of the history becomes on the wire
PayloadMessage(msg) ==
    IF msg.role = "tool"
    THEN ApiMsg("user", ToolResponseEnvelope(msg.content), "")
    ELSE ApiMsg(msg.role, msg.content, "")

\* lines 606-627: messages of any other role are skipped
RECURSIVE PayloadFrom(_)
PayloadFrom(ms) ==
    IF ms = <<>> THEN <<>>
    ELSE (IF Head(ms).role \in {"tool", "assistant", "user"}
          THEN <<PayloadMessage(Head(ms))>> ELSE <<>>) \o PayloadFrom(Tail(ms))

\* a payload that sends the pruned history from its first message on, the
\* stored system message included
ApiPayloadWithStoredSystem(msgs, synthesized_context) ==
    LET pruned_history_for_api == PruneHistoryForApi(msgs)
    IN  <<ApiMsg("system", <<SYSTEM_PROMPT>>, "")>>
        \o (IF Strip(synthesized_context) # <<>>
            THEN <<ApiMsg("system",
                          <<HINT_HEAD>> \o Strip(synthesized_context) \o <<HINT_TAIL>>,
                          "memory_synthesis")>>
            ELSE <<>>)
        \o [i \in 1..Len(pruned_history_for_api) |->
               IF pruned_history_for_api[i].role = "system"
               THEN ApiMsg("system", pruned_history_for_api[i].content, "")
               ELSE PayloadMessage(pruned_history_for_api[i])]

\* lines 589-627: api_payload_messages
ApiPayloadMessages(msgs, synthesized_context) ==
    LET pruned_history_for_api == PruneHistoryForApi(msgs)
        start_index == IF pruned_history_for_api # <<>>
                          /\ pruned_history_for_api[1].role = "system"
                       THEN 2 ELSE 1
    IN  <<ApiMsg("system", <<SYSTEM_PROMPT>>, "")>>
        \o (IF Strip(synthesized_context) # <<>>
            THEN <<ApiMsg("system",
                          <<HINT_HEAD>> \o Strip(synthesized_context) \o <<HINT_TAIL>>,
                          "memory_synthesis")>>
            ELSE <<>>)
        \o PayloadFrom(SubSeq(pruned_history_for_api, start_index,
                              Len(pruned_history_for_api)))

\* a prompt builder that writes the pruned messages back into the history
HistoryPrunedInPlace(msgs) == PruneHistoryForApi(msgs)

\* lines 281 and 590: the prompt is built from copies, self.messages after
\* the call is the list it was before
HistoryAfterPrompt(msgs) == msgs

\* __init__, line 75, for a max_history, an iteration cap and a DEBUG flag
InitChat(mh, cap, debug) ==
    /\ max_history = mh
    /\ max_tool_iterations = cap
    /\ DEBUG = debug
    /\ messages = <<Msg("system", <<SYSTEM_PROMPT>>)>>
    /\ pc = "idle"
    /\ user_input = <<>>
    /\ synth = <<>>
    /\ iteration = 0
    /\ cur_text = <<>>
    /\ cur_content = <<>>
    /\ final_output = <<>>
    /\ cap_reached = FALSE
    /\ outcome = "none"
    /\ returned = <<>>
    /\ raised_by = ""
    /\ handled = HandleStart
    /\ appended = <<>>
    /\ gens = 0
    /\ llm_failed = 0
    /\ logged = <<>>
    /\ turns = 0
    /\ calls = 0
    /\ mem_messages = <<>>
    /\ mem_iter = 0
    /\ final_synthesis = <<>>
    /\ trace_call = <<>>
    /\ prompt = <<>>
    /\ doc_snippets = "unset"
    /\ convo_snippets = "unset"

\* SpecPrune's variables while no call of _prune_history_for_api is modelled
PruneOff ==
    /\ p_hist = <<>>
    /\ p_out = <<>>
    /\ p_pc = "off"

\* SpecClean's variables while the cleaning is not modelled on its own
CleanOff ==
    /\ c_text = <<>>
    /\ c_out = <<>>
    /\ c_pc = "off"

\* SpecCollect's variables while _collect_all_tool_schemas is not modelled
CollectOff ==
    /\ k_agents = <<>>
    /\ k_tool_to_agent_map = <<>>
    /\ k_all_tool_schemas = <<>>
    /\ k_warnings = <<>>
    /\ k_i = 0
    /\ k_j = 0
    /\ k_pc = "off"

\* SpecPref's variables while the preference store is not modelled
PrefOff ==
    /\ s_conn = "none"
    /\ user_preferences = {}
    /\ s_next_id = 1
    /\ s_hist = <<>>
    /\ s_ret = ""
    /\ s_all = [kind |-> "unset", prefs |-> {}]
    /\ s_pc = "off"

UnitsOff == CleanOff /\ CollectOff /\ PrefOff

Init ==
    /\ \E mh \in 0..MaxHist, cap \in 1..MaxCap, debug \in BOOLEAN : InitChat(mh, cap, debug)
    /\ h_text = <<>>
    /\ h_out = HandleStart
    /\ h_pc = "off"
    /\ PruneOff
    /\ UnitsOff

\* the outcomes of a MemoryManager call: it raises, or returns a list
MemoryOutcomes == {"raise", "empty", "some"}

MEM_SYSTEM_PROMPT == "memory reasoner system prompt"
MEM_QUERY_PREFIX == "Main User Query to analyze:"

\* a chat that asks for snippets of both kinds
InvokesOnlyOnBoth(doc, convo) == doc = "some" /\ convo = "some"

\* chat, lines 303-306: both pre-queries returned and found something
InvokesMemoryReasoning(doc, convo) ==
    doc # "raise" /\ convo # "raise" /\ (doc = "some" \/ convo = "some")

\* chat, lines 297-318: the user message, the two memory pre-queries, and
\* either the call of _invoke_memory_reasoning_llm or the turn-start prune
ChatBegin(u, doc, convo) ==
    /\ pc = "idle"
    /\ turns < MaxTurns
    /\ turns' = turns + 1
    /\ user_input' = u
    /\ synth' = <<>>
    /\ iteration' = 0
    /\ cur_text' = <<>>
    /\ cur_content' = <<>>
    /\ final_output' = <<>>
    /\ cap_reached' = FALSE
    /\ outcome' = "none"
    /\ returned' = <<>>
    /\ raised_by' = ""
    /\ handled' = HandleStart
    /\ appended' = <<>>
    /\ gens' = 0
    /\ llm_failed' = 0
    /\ logged' = <<>>
    /\ trace_call' = <<>>
    /\ mem_iter' = 0
    /\ final_synthesis' = <<>>
    /\ prompt' = <<>>
    /\ doc_snippets' = doc
    /\ convo_snippets' = IF doc = "raise" THEN "unset" ELSE convo
    /\ IF InvokesMemoryReasoning(doc, convo)
       THEN /\ messages' = Append(messages, Msg("user", u))
            /\ mem_messages' = << Msg("system", <<MEM_SYSTEM_PROMPT>>),
                                  Msg("user", <<MEM_QUERY_PREFIX>> \o u) >>
            /\ pc' = "mem_llm"
       ELSE /\ messages' = TurnStartPrune(Append(messages, Msg("user", u)), max_history)
            /\ mem_messages' = <<>>
            /\ pc' = "generating"
    /\ UNCHANGED <<cfgVars, calls>>

\* ------------------------------------------- _invoke_memory_reasoning_llm
ERR_MEM_API == "[Memory reasoning failed due to API error.]"
ERR_MEM_UNEXPECTED == "[Memory reasoning failed due to unexpected error.]"
ERR_MEM_MAX_ITER == "[Memory reasoning reached max iterations without a clear synthesis.]"
ERR_MEM_UNPROCESSED == "[Memory reasoning process concluded with an unprocessed tool call instead of a textual summary.]"
ERR_MEM_NOT_RECOGNIZED == "[Error: Tool not recognized by Memory Reasoner]"
ERR_MEM_JSON == "[Error: Invalid JSON in tool call]"
NO_CONVO_SNIPPETS == "[No relevant conversation snippets found.]"
NO_DOC_SNIPPETS == "[No relevant document snippets found.]"
SNIPPETS_JSON == "[{snippet}]"

\* a sub-loop that would run one pass more than its iteration parameter
MemIterationsOneMore == MaxMemIter + 1

\* the max_mem_reasoning_iterations parameter
max_mem_reasoning_iterations == MaxMemIter

\* what a successful call of the memory-reasoning LLM can answer
MemContents ==
    { <<TXT>>, <<WS, SENTINEL>>,
      Block(J_SEARCH_CONVO) \o Block(J_FOO) \o Block(J_ENV), NoneValue }

MemLLMOutcomes ==
    [kind : {"ok"}, content : MemContents] \cup [kind : {"api_error"}, content : {<<>>}]

\* a sub-loop that hands the other tool names to the agents of the main loop
MemHandleOneViaRegistry(acc, inner, snip) ==
    LET parsed == JsonLoads(Strip(inner))
        j == parsed.val
        n == GetName(j)
        search == n \in {"search_past_conversations", "search_documents"}
        none == IF n = "search_documents" THEN NO_DOC_SNIPPETS ELSE NO_CONVO_SNIPPETS
    IN  IF ~parsed.ok
        THEN [acc EXCEPT !.results = Append(@,
                 ToolMsg("json_error_0", "json_error", <<ERR_MEM_JSON>>))]
        ELSE IF ~IsDict(j) THEN [acc EXCEPT !.exc = "AttributeError"]
        ELSE IF search /\ GetArguments(j) = "nonmap"
        THEN [acc EXCEPT !.exc = "AttributeError"]
        ELSE IF search /\ snip = "raise"
        THEN [acc EXCEPT !.exc = "Exception", !.executed = Append(@, n)]
        ELSE IF search
        THEN [acc EXCEPT !.executed = Append(@, n),
                 !.results = Append(@, ToolMsg(n, n,
                     IF snip = "some" THEN <<SNIPPETS_JSON>> ELSE <<none>>))]
        ELSE IF n \in DOMAIN tool_to_agent_map
        THEN [acc EXCEPT !.executed = Append(@, n),
                 !.results = Append(@, ToolMsg(n, n,
                     ExecuteTool(tool_to_agent_map[n], n, GetArguments(j)).content))]
        ELSE [acc EXCEPT !.results = Append(@,
                 ToolMsg(n, n, <<ERR_MEM_NOT_RECOGNIZED>>))]

\* lines 513-534, one tool-call match; snip is what the MemoryManager search does
MemHandleOne(acc, inner, snip) ==
    LET parsed == JsonLoads(Strip(inner))
        j == parsed.val
        n == GetName(j)
        search == n \in {"search_past_conversations", "search_documents"}
        none == IF n = "search_documents" THEN NO_DOC_SNIPPETS ELSE NO_CONVO_SNIPPETS
    IN  IF ~parsed.ok
        THEN [acc EXCEPT !.results = Append(@,
                 ToolMsg("json_error_0", "json_error", <<ERR_MEM_JSON>>))]
        ELSE IF ~IsDict(j) THEN [acc EXCEPT !.exc = "AttributeError"]
        ELSE IF search /\ GetArguments(j) = "nonmap"
        THEN [acc EXCEPT !.exc = "AttributeError"]
        ELSE IF search /\ snip = "raise"
        THEN [acc EXCEPT !.exc = "Exception", !.executed = Append(@, n)]
        ELSE IF search
        THEN [acc EXCEPT !.executed = Append(@, n),
                 !.results = Append(@, ToolMsg(n, n,
                     IF snip = "some" THEN <<SNIPPETS_JSON>> ELSE <<none>>))]
        ELSE [acc EXCEPT !.results = Append(@,
                 ToolMsg(n, n, <<ERR_MEM_NOT_RECOGNIZED>>))]

RECURSIVE MemHandleLoop(_, _, _, _)
MemHandleLoop(acc, s, ms, snip) ==
    IF ms = <<>> \/ acc.exc # "" THEN acc
    ELSE MemHandleLoop(MemHandleOne(acc, Group1(s, Head(ms)), snip), s, Tail(ms), snip)

\* the content of the last assistant message of msgs, <<>> when there is none
LastAssistantText(msgs) ==
    LET idx == { i \in 1..Len(msgs) : msgs[i].role = "assistant" }
    IN  IF idx = {} THEN <<>>
        ELSE msgs[CHOOSE i \in idx : \A j \in idx : j <= i].content

\* an else clause that falls back on the last assistant text wherever it
\* stands in the sub-dialogue
MemLoopElseLastAssistant(fs, msgs) ==
    IF fs # <<>> THEN fs
    ELSE IF LastAssistantText(msgs) # <<>> THEN LastAssistantText(msgs)
    ELSE <<ERR_MEM_MAX_ITER>>

\* lines 544-548: the else clause of the sub-loop's for
MemLoopElse(fs, msgs) ==
    IF fs = <<>> /\ msgs[Len(msgs)].role = "assistant" THEN msgs[Len(msgs)].content
    ELSE IF fs = <<>> THEN <<ERR_MEM_MAX_ITER>>
    ELSE fs

\* lines 469-548: one iteration of the sub-loop: the LLM call and the tool
\* calls of its answer
MemLLMCall(o, snip) ==
    /\ pc = "mem_llm"
    /\ LET c == Strip(o.content)
           withAsst == Append(mem_messages, Msg("assistant", c))
           h == MemHandleLoop(HandleStart, c, Matches(c), snip)
           after == withAsst \o h.results
       IN  IF o.kind = "api_error"
           THEN /\ final_synthesis' = <<ERR_MEM_API>>
                /\ pc' = "mem_finish"
                /\ UNCHANGED <<mem_messages, mem_iter>>
           ELSE IF o.content = NoneValue
           THEN /\ final_synthesis' = <<ERR_MEM_UNEXPECTED>>
                /\ pc' = "mem_finish"
                /\ UNCHANGED <<mem_messages, mem_iter>>
           ELSE IF Matches(c) = <<>>
           THEN /\ final_synthesis' = c
                /\ mem_messages' = withAsst
                /\ pc' = "mem_finish"
                /\ UNCHANGED mem_iter
           ELSE IF h.exc # ""
           THEN /\ final_synthesis' = <<ERR_MEM_UNEXPECTED>>
                /\ mem_messages' = after
                /\ pc' = "mem_finish"
                /\ UNCHANGED mem_iter
           ELSE /\ mem_messages' = after
                /\ mem_iter' = mem_iter + 1
                /\ IF mem_iter + 1 >= max_mem_reasoning_iterations
                   THEN /\ final_synthesis' = MemLoopElse(final_synthesis, after)
                        /\ pc' = "mem_finish"
                   ELSE /\ pc' = "mem_llm"
                        /\ UNCHANGED final_synthesis
    /\ doc_snippets' = "unset"
    /\ convo_snippets' = "unset"
    /\ UNCHANGED <<cfgVars, messages, user_input, synth, loopVars, endVars, turns,
                   calls, trace_call, prompt>>

\* a return that hands the final text on whatever it says
MemSynthesisLiteral(fs, debug) == Strip(fs)

\* lines 550-560: what _invoke_memory_reasoning_llm returns before it logs
MemSynthesis(fs, debug) ==
    LET fs1 == IF fs # <<>> /\ Matches(fs) # <<>> /\ debug
               THEN <<ERR_MEM_UNPROCESSED>> ELSE fs
    IN  IF Contains(fs1, SENTINEL) THEN <<>> ELSE Strip(fs1)

\* lines 550-586, and chat lines 309-318: the sub-loop's result is returned to
\* chat, which prunes the history; res is what log_reasoning_trace does
MemFinish(res) ==
    /\ pc = "mem_finish"
    /\ LET ret == MemSynthesis(final_synthesis, DEBUG)
       IN  /\ synth' = ret
           /\ trace_call' = IF ret = <<>> THEN <<>>
                             ELSE << [reasoning_messages |-> mem_messages,
                                      trace_type |-> "memory_reasoner_dialogue",
                                      related_query |-> user_input,
                                      result |-> res] >>
    /\ messages' = TurnStartPrune(messages, max_history)
    /\ pc' = "generating"
    /\ mem_messages' = <<>>
    /\ mem_iter' = 0
    /\ UNCHANGED <<cfgVars, user_input, loopVars, endVars, turns, calls,
                   final_synthesis, prompt, preVars>>

\* ------------------------------------------------------------ main loop
\* a loop that would run one pass more than range(MAX_TOOL_ITERATIONS)
LoopRunsOnePassMore(i, cap) == i <= cap

\* for iteration in range(MAX_TOOL_ITERATIONS): the loop has another pass
LoopContinues(i, cap) == i < cap

\* a chat that hands the synthesized context to the first call of the turn only
PrimaryLLMCallHintOnce(o) ==
    /\ pc = "generating"
    /\ calls < MaxCalls
    /\ calls' = calls + 1
    /\ gens' = gens + 1
    /\ cur_text' = LlmReturn(o).text
    /\ cur_content' = LlmReturn(o).parse
    /\ llm_failed' = IF llm_failed = 0 /\ o.kind # "ok" THEN gens + 1 ELSE llm_failed
    /\ trace_call' = <<>>
    /\ final_synthesis' = <<>>
    /\ prompt' = ApiPayloadMessages(messages, IF gens = 0 THEN synth ELSE <<>>)
    /\ messages' = HistoryAfterPrompt(messages)
    /\ LET next == IF gens = 0 THEN 0 ELSE iteration + 1
       IN  /\ iteration' = next
           /\ IF LoopContinues(next, max_tool_iterations)
              THEN pc' = "dispatching" /\ cap_reached' = FALSE
              ELSE pc' = "finalizing" /\ cap_reached' = TRUE
    /\ doc_snippets' = "unset"
    /\ convo_snippets' = "unset"
    /\ UNCHANGED <<cfgVars, user_input, synth, final_output, handled,
                   appended, endVars, turns, mem_messages, mem_iter>>

\* chat, lines 322-325 and 351-354: a call of _get_llm_response.  The call
\* before the loop enters the first pass; a call made inside pass `iteration`
\* ends that pass, and the loop's else clause runs when no pass is left.
PrimaryLLMCall(o) ==
    /\ pc = "generating"
    /\ calls < MaxCalls
    /\ calls' = calls + 1
    /\ gens' = gens + 1
    /\ cur_text' = LlmReturn(o).text
    /\ cur_content' = LlmReturn(o).parse
    /\ llm_failed' = IF llm_failed = 0 /\ o.kind # "ok" THEN gens + 1 ELSE llm_failed
    /\ trace_call' = <<>>
    /\ final_synthesis' = <<>>
    /\ prompt' = ApiPayloadMessages(messages, synth)
    /\ messages' = HistoryAfterPrompt(messages)
    /\ LET next == IF gens = 0 THEN 0 ELSE iteration + 1
       IN  /\ iteration' = next
           /\ IF LoopContinues(next, max_tool_iterations)
              THEN pc' = "dispatching" /\ cap_reached' = FALSE
              ELSE pc' = "finalizing" /\ cap_reached' = TRUE
    /\ doc_snippets' = "unset"
    /\ convo_snippets' = "unset"
    /\ UNCHANGED <<cfgVars, user_input, synth, final_output, handled,
                   appended, endVars, turns, mem_messages, mem_iter>>

\* chat, lines 339-342: assistant_message_for_history
AssistantMessage(text, tool_calls) ==
    [Msg("assistant", text) EXCEPT !.has_tool_calls = (tool_calls # <<>>),
                                   !.tool_calls = tool_calls]

\* chat, lines 337-359: one pass of the loop up to its call of
\* _get_llm_response or its break
Dispatch ==
    /\ pc = "dispatching"
    /\ LET h == HandleToolCalls(cur_content)
           asst == AssistantMessage(cur_text, h.calls)
       IN  /\ handled' = h
           /\ IF h.exc # ""
              THEN /\ outcome' = "raised"
                   /\ raised_by' = "_handle_tool_calls"
                   /\ pc' = "idle"
                   /\ appended' = <<>>
                   /\ UNCHANGED <<messages, final_output>>
              ELSE /\ appended' = <<asst>> \o h.results
                   /\ UNCHANGED <<outcome, raised_by>>
                   /\ IF h.results # <<>>
                      THEN /\ messages' = InLoopPrune(messages \o <<asst>> \o h.results,
                                                      max_history, Len(h.results))
                           /\ pc' = "generating"
                           /\ UNCHANGED final_output
                      ELSE /\ messages' = Append(messages, asst)
                           /\ final_output' = cur_text
                           /\ pc' = "finalizing"
    /\ UNCHANGED <<cfgVars, user_input, synth, iteration, cur_text, cur_content,
                   cap_reached, gens, llm_failed, returned, logged, turns, calls,
                   memVars, prompt, preVars>>

\* a chat without the try around log_interaction
LogInteractionPropagates(res) == "raised"

\* chat, lines 381-389: log_interaction raised inside the try
LogInteractionRaised(res) == "returned"

\* chat, lines 363-391: the final text is cleaned, logged and returned; res is
\* what log_interaction does
Finalize(res) ==
    /\ pc = "finalizing"
    /\ LET final_user_visible_response == FinalVisible(final_output)
       IN  /\ returned' = HtmlUnescape(final_user_visible_response)
           /\ IF res = "raise"
              THEN /\ outcome' = LogInteractionRaised(res)
                   /\ raised_by' = IF LogInteractionRaised(res) = "raised"
                                   THEN "log_interaction" ELSE ""
                   /\ UNCHANGED logged
              ELSE /\ outcome' = "returned"
                   /\ raised_by' = ""
                   /\ logged' = Append(logged,
                          [user_utterance |-> user_input,
                           agent_response |-> final_user_visible_response])
    /\ pc' = "idle"
    /\ UNCHANGED <<cfgVars, messages, user_input, synth, loopVars, turns, calls,
                   memVars, prompt, preVars>>

Next ==
    \/ \E u \in UserInputs, doc \in MemoryOutcomes, convo \in MemoryOutcomes :
           ChatBegin(u, doc, convo) /\ UNCHANGED pureVars
    \/ \E o \in MemLLMOutcomes, snip \in MemoryOutcomes :
           MemLLMCall(o, snip) /\ UNCHANGED pureVars
    \/ \E res \in {"ok", "raise"} : MemFinish(res) /\ UNCHANGED pureVars
    \/ \E o \in LLMOutcomes : PrimaryLLMCall(o) /\ UNCHANGED pureVars
    \/ Dispatch /\ UNCHANGED pureVars
    \/ \E res \in {"ok", "raise"} : Finalize(res) /\ UNCHANGED pureVars

Spec == Init /\ [][Next]_vars

\* ----------------------------------------- _handle_tool_calls on its own
\* The pieces a response text is put together from: ordinary text, stray
\* markers, and blocks around each JSON document, around padded, doubled
\* and missing JSON.
HandleJson ==
    { J_ENV, J_ENV_BADARGS, J_ENV_NONMAP, J_CMD_RAISES, J_FOO, J_NONAME,
      J_EMPTYNAME, J_LISTNAME, J_NUMNAME, J_NONOBJ }

Segments ==
    { <<TXT>>, <<WS>>, <<TOOL_OPEN>>, <<TOOL_CLOSE>>,
      <<TOOL_OPEN, TOOL_CLOSE>>, <<TOOL_OPEN, WS, J_ENV, WS, TOOL_CLOSE>> }
    \cup { Block(j) : j \in HandleJson }

RECURSIVE Concat(_)
Concat(ss) == IF ss = <<>> THEN <<>> ELSE Head(ss) \o Concat(Tail(ss))

\* the texts of n pieces
HandleTexts(n) == { Concat(ss) : ss \in [1..n -> Segments] }

InitHandle ==
    /\ InitChat(0, 1, FALSE)
    /\ \E n \in 0..MaxTextLen : h_text \in HandleTexts(n)
    /\ h_out = HandleStart
    /\ h_pc = "start"
    /\ PruneOff
    /\ UnitsOff

\* one call of _handle_tool_calls(h_text)
HandleCall ==
    /\ h_pc = "start"
    /\ h_out' = HandleToolCalls(h_text)
    /\ h_pc' = "done"
    /\ UNCHANGED <<h_text, chatVars, pruneVars, unitVars>>

NextHandle == HandleCall

SpecHandle == InitHandle /\ [][NextHandle]_vars

\* -------------------------------------- _prune_history_for_api on its own
\* Assistant texts: plain, with a reasoning block, with a reasoning block
\* inside the two pieces of an opening marker, with an unclosed block
AssistantTexts ==
    { <<TXT>>,
      <<THINK_OPEN, TXT, THINK_CLOSE, WS, TXT>>,
      <<TH_HEAD, THINK_OPEN, TXT, THINK_CLOSE, TH_TAIL, TXT, THINK_CLOSE, TXT>>,
      <<THINK_OPEN, TXT>> }

\* The messages a history is made of: the system message, a genuine user
\* message, a user message that is a wrapped tool result, a tool result and
\* the assistant messages
PruneMessages ==
    { Msg("system", <<SYSTEM_PROMPT>>),
      Msg("user", <<USER_TEXT>>),
      Msg("user", <<WS>> \o ToolResponseEnvelope(<<TOOL_VALUE>>)),
      ToolMsg("call_0", "get_env", <<TOOL_VALUE>>) }
    \cup { Msg("assistant", t) : t \in AssistantTexts }

PruneHistories == UNION { [1..n -> PruneMessages] : n \in 0..MaxPruneLen }

InitPrune ==
    /\ InitChat(0, 1, FALSE)
    /\ h_text = <<>>
    /\ h_out = HandleStart
    /\ h_pc = "off"
    /\ p_hist \in PruneHistories
    /\ p_out = <<>>
    /\ p_pc = "start"
    /\ UnitsOff

\* one call of _prune_history_for_api(p_hist)
PruneCall ==
    /\ p_pc = "start"
    /\ p_out' = PruneHistoryForApi(p_hist)
    /\ p_pc' = "done"
    /\ UNCHANGED <<p_hist, chatVars, handleVars, unitVars>>

\* a second call, on what the first returned
PruneAgain ==
    /\ p_pc = "done"
    /\ p_hist' = p_out
    /\ p_out' = PruneHistoryForApi(p_out)
    /\ p_pc' = "again"
    /\ UNCHANGED <<chatVars, handleVars, unitVars>>

NextPrune == PruneCall \/ PruneAgain

SpecPrune == InitPrune /\ [][NextPrune]_vars

\* ------------------------------- the final-answer cleaning on its own
\* the pieces a final text is put together from
CleanTokens ==
    { TXT, WS, THINK_OPEN, THINK_CLOSE, TOOL_OPEN, TOOL_CLOSE, IM_END, IM_START }

\* the final texts of n pieces
CleanTexts(n) == [1..n -> CleanTokens]

\* SpecHandle's variables while _handle_tool_calls is not modelled on its own
HandleOff ==
    /\ h_text = <<>>
    /\ h_out = HandleStart
    /\ h_pc = "off"

InitClean ==
    /\ InitChat(0, 1, FALSE)
    /\ HandleOff
    /\ PruneOff
    /\ \E n \in 0..MaxCleanLen : c_text \in CleanTexts(n)
    /\ c_out = <<>>
    /\ c_pc = "start"
    /\ CollectOff
    /\ PrefOff

\* chat, lines 363-380, on the final text c_text
CleanCall ==
    /\ c_pc = "start"
    /\ c_out' = FinalVisible(c_text)
    /\ c_pc' = "done"
    /\ UNCHANGED <<c_text, chatVars, handleVars, pruneVars, collectVars, prefVars>>

NextClean == CleanCall

SpecClean == InitClean /\ [][NextClean]_vars

\* ------------------------------- _collect_all_tool_schemas on its own
\* keys of self.agents, in the order _register_agents inserts them
AgentOrder == <<"file_system", "code_dev", "system_env">>

\* what schema.get("name") can be; the empty string stands for a descriptor
\* without a usable name
SchemaNames == { "read_file", "get_env", "" }

\* get_tool_json_schemas() of agent a declaring the names ns: one descriptor
\* per declaration, each the agent's own
SchemasOf(a, ns) == [j \in 1..Len(ns) |-> [name |-> ns[j], agent |-> a, pos |-> j]]

\* the declarations one agent can make
Declarations == UNION { [1..n -> SchemaNames] : n \in 0..MaxDecls }

InitCollect ==
    /\ InitChat(0, 1, FALSE)
    /\ HandleOff
    /\ PruneOff
    /\ CleanOff
    /\ \E d \in [1..Len(AgentOrder) -> Declarations] :
           k_agents = [i \in 1..Len(AgentOrder) |->
                          [agent_name |-> AgentOrder[i],
                           schemas |-> SchemasOf(AgentOrder[i], d[i])]]
    /\ k_tool_to_agent_map = <<>>
    /\ k_all_tool_schemas = <<>>
    /\ k_warnings = <<>>
    /\ k_i = 0
    /\ k_j = 0
    /\ k_pc = "start"
    /\ PrefOff

\* lines 99-100: both collections start empty
CollectBegin ==
    /\ k_pc = "start"
    /\ k_all_tool_schemas' = <<>>
    /\ k_tool_to_agent_map' = <<>>
    /\ k_i' = 1
    /\ k_j' = 1
    /\ k_pc' = "agents"
    /\ UNCHANGED <<k_agents, k_warnings>>

\* lines 103-109: one descriptor of the agent at k_i
CollectSchema ==
    /\ k_pc = "agents"
    /\ k_i <= Len(k_agents)
    /\ k_j <= Len(k_agents[k_i].schemas)
    /\ LET schema == k_agents[k_i].schemas[k_j]
           tool_name == schema.name
           agent_name == k_agents[k_i].agent_name
       IN  IF Truthy(tool_name)
           THEN /\ k_warnings' = IF tool_name \in DOMAIN k_tool_to_agent_map
                                 THEN Append(k_warnings,
                                          [tool_name |-> tool_name, agent_name |-> agent_name])
                                 ELSE k_warnings
                /\ k_tool_to_agent_map' =
                       [n \in DOMAIN k_tool_to_agent_map \cup {tool_name} |->
                           IF n = tool_name THEN agent_name ELSE k_tool_to_agent_map[n]]
                /\ k_all_tool_schemas' = Append(k_all_tool_schemas, schema)
           ELSE UNCHANGED <<k_warnings, k_tool_to_agent_map, k_all_tool_schemas>>
    /\ k_j' = k_j + 1
    /\ UNCHANGED <<k_agents, k_i, k_pc>>

\* lines 101-103: the schemas of the agent at k_i are through, the loop goes
\* on to the next agent
CollectNextAgent ==
    /\ k_pc = "agents"
    /\ k_i <= Len(k_agents)
    /\ k_j > Len(k_agents[k_i].schemas)
    /\ k_i' = k_i + 1
    /\ k_j' = 1
    /\ UNCHANGED <<k_agents, k_tool_to_agent_map, k_all_tool_schemas, k_warnings, k_pc>>

\* line 111: the loop over the agents is through
CollectEnd ==
    /\ k_pc = "agents"
    /\ k_i > Len(k_agents)
    /\ k_pc' = "done"
    /\ UNCHANGED <<k_agents, k_tool_to_agent_map, k_all_tool_schemas, k_warnings,
                   k_i, k_j>>

NextCollect ==
    \/ CollectBegin /\ UNCHANGED <<chatVars, handleVars, pruneVars, cleanVars, prefVars>>
    \/ CollectSchema /\ UNCHANGED <<chatVars, handleVars, pruneVars, cleanVars, prefVars>>
    \/ CollectNextAgent /\ UNCHANGED <<chatVars, handleVars, pruneVars, cleanVars, prefVars>>
    \/ CollectEnd /\ UNCHANGED <<chatVars, handleVars, pruneVars, cleanVars, prefVars>>

SpecCollect == InitCollect /\ [][NextCollect]_vars

\* ------------------------------------------ the structured preference store
\* Python's None among strings
PyNone == "<None>"
PyTrue == "True"
PyFalse == "False"

DEFAULT_USER_ID == "default_user"

PrefKeys == { "theme", "name" }
PrefValues == { "dark", "light" }

\* the user_id arguments of a MemoryManager call
UserIdArgs == { PyNone, "henry" }

\* a manager that hands the user_id argument on as it is
ResolveUserLiteral(user_id) == user_id

\* MemoryManager: uid = user_id if user_id else self.default_user_id
ResolveUser(user_id) == IF user_id \in {PyNone, ""} THEN DEFAULT_USER_ID ELSE user_id

\* the rows of user uid under key
RowsFor(rows, key, uid) == { r \in rows : r.user_id = uid /\ r.key = key }

\* an INSERT that leaves a row it conflicts with as it is
InsertOrIgnore(rows, id, key, value, uid) ==
    IF RowsFor(rows, key, uid) # {} THEN rows
    ELSE rows \cup { [id |-> id, user_id |-> uid, key |-> key, value |-> value] }

\* store_preference's statement: INSERT ... ON CONFLICT(user_id, key) DO
\* UPDATE SET value = excluded.value
Upsert(rows, id, key, value, uid) ==
    IF RowsFor(rows, key, uid) # {}
    THEN { IF r.user_id = uid /\ r.key = key THEN [r EXCEPT !.value = value] ELSE r :
           r \in rows }
    ELSE rows \cup { [id |-> id, user_id |-> uid, key |-> key, value |-> value] }

\* get_preference's SELECT and fetchone
SelectValue(rows, key, uid) ==
    IF RowsFor(rows, key, uid) = {} THEN PyNone
    ELSE (CHOOSE r \in RowsFor(rows, key, uid) : TRUE).value

\* get_all_preferences' SELECT and fetchall, as the dict of its rows
SelectAll(rows, uid) ==
    { [key |-> r.key, value |-> r.value] : r \in { q \in rows : q.user_id = uid } }

\* s_all while the last call is not get_all_preferences
AllUnset == [kind |-> "unset", prefs |-> {}]

InitPref ==
    /\ InitChat(0, 1, FALSE)
    /\ HandleOff
    /\ PruneOff
    /\ CleanOff
    /\ CollectOff
    /\ s_conn \in {"open", "none"}
    /\ user_preferences = {}
    /\ s_next_id = 1
    /\ s_hist = <<>>
    /\ s_ret = ""
    /\ s_all = AllUnset
    /\ s_pc = "ready"

\* MemoryManager.store_preference and StructuredMemory.store_preference; db
\* is what sqlite3 does with the statement
StorePreference(key, value, user_id, db) ==
    /\ s_pc = "ready"
    /\ Len(s_hist) < MaxPrefOps
    /\ LET uid == ResolveUser(user_id)
       IN  IF s_conn = "none" \/ db = "error"
           THEN /\ s_ret' = PyFalse
                /\ UNCHANGED <<user_preferences, s_next_id, s_hist>>
           ELSE /\ user_preferences' = Upsert(user_preferences, s_next_id, key, value, uid)
                /\ s_next_id' = IF RowsFor(user_preferences, key, uid) = {}
                                THEN s_next_id + 1 ELSE s_next_id
                /\ s_hist' = Append(s_hist, [op |-> "store", key |-> key,
                                             value |-> value, user_id |-> uid])
                /\ s_ret' = PyTrue
    /\ s_all' = AllUnset
    /\ UNCHANGED <<s_conn, s_pc>>

\* MemoryManager.get_preference and StructuredMemory.get_preference
GetPreference(key, user_id, db) ==
    /\ s_pc = "ready"
    /\ s_ret' = IF s_conn = "none" \/ db = "error" THEN PyNone
                ELSE SelectValue(user_preferences, key, ResolveUser(user_id))
    /\ s_all' = AllUnset
    /\ UNCHANGED <<s_conn, user_preferences, s_next_id, s_hist, s_pc>>

\* MemoryManager.get_all_preferences and StructuredMemory.get_all_preferences
GetAllPreferences(user_id, db) ==
    /\ s_pc = "ready"
    /\ s_all' = IF s_conn = "none" \/ db = "error" THEN [kind |-> "none", prefs |-> {}]
                ELSE [kind |-> "dict",
                      prefs |-> SelectAll(user_preferences, ResolveUser(user_id))]
    /\ s_ret' = ""
    /\ UNCHANGED <<s_conn, user_preferences, s_next_id, s_hist, s_pc>>

\* a delete whose WHERE clause names the key alone
DeletePreferenceByKey(key, user_id, db) ==
    /\ s_pc = "ready"
    /\ Len(s_hist) < MaxPrefOps
    /\ LET uid == ResolveUser(user_id)
           hit == { r \in user_preferences : r.key = key }
       IN  IF s_conn = "none" \/ db = "error"
           THEN /\ s_ret' = PyFalse
                /\ UNCHANGED <<user_preferences, s_hist>>
           ELSE /\ user_preferences' = user_preferences \ hit
                /\ s_hist' = Append(s_hist, [op |-> "delete", key |-> key,
                                             value |-> PyNone, user_id |-> uid])
                /\ s_ret' = IF hit # {} THEN PyTrue ELSE PyFalse
    /\ s_all' = AllUnset
    /\ UNCHANGED <<s_conn, s_next_id, s_pc>>

\* MemoryManager.delete_preference and StructuredMemory.delete_preference
DeletePreference(key, user_id, db) ==
    /\ s_pc = "ready"
    /\ Len(s_hist) < MaxPrefOps
    /\ LET uid == ResolveUser(user_id)
       IN  IF s_conn = "none" \/ db = "error"
           THEN /\ s_ret' = PyFalse
                /\ UNCHANGED <<user_preferences, s_hist>>
           ELSE /\ user_preferences' = user_preferences \ RowsFor(user_preferences, key, uid)
                /\ s_hist' = Append(s_hist, [op |-> "delete", key |-> key,
                                             value |-> PyNone, user_id |-> uid])
                /\ s_ret' = IF RowsFor(user_preferences, key, uid) # {}
                            THEN PyTrue ELSE PyFalse
    /\ s_all' = AllUnset
    /\ UNCHANGED <<s_conn, s_next_id, s_pc>>

NextPref ==
    \/ \E key \in PrefKeys, value \in PrefValues, user_id \in UserIdArgs,
          db \in {"ok", "error"} :
           /\ StorePreference(key, value, user_id, db)
           /\ UNCHANGED <<chatVars, handleVars, pruneVars, cleanVars, collectVars>>
    \/ \E key \in PrefKeys, user_id \in UserIdArgs, db \in {"ok", "error"} :
           /\ GetPreference(key, user_id, db)
           /\ UNCHANGED <<chatVars, handleVars, pruneVars, cleanVars, collectVars>>
    \/ \E key \in PrefKeys, user_id \in UserIdArgs, db \in {"ok", "error"} :
           /\ DeletePreference(key, user_id, db)
           /\ UNCHANGED <<chatVars, handleVars, pruneVars, cleanVars, collectVars>>
    \/ \E user_id \in UserIdArgs, db \in {"ok", "error"} :
           /\ GetAllPreferences(user_id, db)
           /\ UNCHANGED <<chatVars, handleVars, pruneVars, cleanVars, collectVars>>

SpecPref == InitPref /\ [][NextPref]_vars

\* ================================================================= claims
\* the last chat call has ended
TurnEnded == pc = "idle" /\ outcome # "none"

\* the cleaned form of a response text, as chat returns it
Cleaned(text) == HtmlUnescape(FinalVisible(text))

ErrorHeads ==
    { ERR_INCORRECT_ARGS, ERR_EXECUTING, ERR_NOT_IN_AGENT, ERR_MISSING_NAME,
      ERR_NOT_RECOGNIZED, ERR_INVALID_JSON }

LLMErrorHeads == { ERR_TIMEOUT, ERR_API_FAILED, ERR_PARSE_API }

\* the name the result of a block carries when the block is answered in-band
ResultName(inner) ==
    IF JsonLoads(inner).ok THEN GetName(JsonLoads(inner).val) ELSE "json_parse_error"

\* results answers the blocks of text one for one, in document order
AnswersInOrder(text, results) ==
    /\ Len(results) = Len(Matches(text))
    /\ \A i \in 1..Len(results) :
           /\ results[i].role = "tool"
           /\ results[i].name = ResultName(Group1(text, Matches(text)[i]))

\* C1: after each primary LLM response the turn issues a further LLM call if
\* and only if the tool-parsing copy of the response holds a complete
\* tool-call block (and the cap is not reached); when the first response
\* holds no block, the turn makes exactly one primary call and chat returns
\* the cleaned form of that response.
C1_FurtherCallIffToolCall ==
    /\ (pc = "generating" /\ gens >= 1) => Matches(cur_content) # <<>>
    /\ (TurnEnded /\ ~cap_reached) => Matches(cur_content) = <<>>
    /\ (TurnEnded /\ gens = 1 /\ Matches(cur_content) = <<>>)
           => (outcome = "returned" /\ returned = Cleaned(cur_text))

\* C2, as stated: a turn whose loop runs to the cap N has made exactly N
\* primary LLM generations.
C2_ExactlyCapGenerations == cap_reached => gens = max_tool_iterations

\* C2, amended: a turn in which each of the first N responses yields tool
\* results makes exactly N + 1 primary LLM generations, one before the loop
\* and one at the end of each of its N passes, and then leaves the loop; no
\* turn makes more.
C2_CapPlusOneGenerations ==
    /\ cap_reached => (gens = max_tool_iterations + 1 /\ pc \in {"finalizing", "idle"})
    /\ gens <= max_tool_iterations + 1
    /\ (gens = max_tool_iterations + 1) => cap_reached

C2_Witness == cap_reached /\ max_tool_iterations = 2 /\ gens = 3 /\ pc = "idle"

\* C3: when the loop exits because the cap was reached, chat returns the
\* cleaned form of the last assistant response text received in the turn.
C3_CapReturnsLastResponse ==
    (TurnEnded /\ outcome = "returned" /\ cap_reached) => returned = Cleaned(cur_text)

\* C4: whatever a tool-call block holds, _handle_tool_calls answers it with
\* an in-band tool result, an error string unless the call succeeded, and
\* does not raise.
C4_ErrorsAreInBand ==
    h_pc = "done" =>
        /\ h_out.exc = ""
        /\ Len(h_out.results) = Len(Matches(h_text))
        /\ \A i \in 1..Len(h_out.results) :
               \/ h_out.results[i].content = <<TOOL_VALUE>>
               \/ h_out.results[i].content[1] \in ErrorHeads

\* C5: for a text with N complete blocks _handle_tool_calls returns exactly
\* N results in document order; a block of malformed JSON is answered by a
\* json_parse_error result at its position and is the only block missing
\* from the parsed requests.
C5_OneResultPerBlock ==
    h_pc = "done" =>
        /\ AnswersInOrder(h_text, h_out.results)
        /\ Len(h_out.calls) =
               Cardinality({ i \in 1..Len(Matches(h_text)) :
                               JsonLoads(Group1(h_text, Matches(h_text)[i])).ok })

\* C6: a loop pass over a response with k >= 1 blocks appends to the history
\* first the assistant message with the recorded tool_calls and then exactly
\* k tool results, one per block in document order, before any prune.
C6_AssistantThenResults ==
    ((pc = "generating" /\ gens >= 1) \/ (TurnEnded /\ outcome = "raised"))
        => (Matches(cur_content) # <<>> =>
               /\ appended # <<>>
               /\ appended[1].role = "assistant"
               /\ appended[1].content = cur_text
               /\ appended[1].tool_calls = handled.calls
               /\ AnswersInOrder(cur_content, Tail(appended)))

\* C7: a block that names a tool outside tool_to_agent_map is answered, at
\* its position among the results, by a result saying the tool is not
\* recognized, and agent methods run only for names in the registry.
C7_UnknownToolNotRecognized ==
    h_pc = "done" =>
        /\ \A i \in 1..Len(Matches(h_text)) :
               LET p == JsonLoads(Group1(h_text, Matches(h_text)[i]))
               IN  (p.ok /\ IsDict(p.val) /\ Truthy(GetName(p.val))
                         /\ GetName(p.val) \notin DOMAIN tool_to_agent_map)
                       => /\ Len(h_out.results) >= i
                          /\ h_out.results[i].content = <<ERR_NOT_RECOGNIZED>>
        /\ \A i \in 1..Len(h_out.executed) :
               h_out.executed[i] \in DOMAIN tool_to_agent_map

\* C8: once a primary LLM call has failed, the turn makes no further primary
\* call, and chat returns an error message.
C8_FailedCallEndsTurn ==
    llm_failed # 0 =>
        /\ gens = llm_failed
        /\ TurnEnded => (outcome = "returned" /\ returned # <<>>
                            /\ returned[1] \in LLMErrorHeads)

\* C9: no memory call that raises (a pre-query, log_reasoning_trace,
\* log_interaction) ends the turn: chat raises only out of tool handling,
\* and what it returns is the cleaned final answer whatever the memory
\* calls did.
C9_MemoryFailuresSwallowed ==
    /\ outcome = "raised" => raised_by = "_handle_tool_calls"
    /\ outcome = "returned" => returned = Cleaned(final_output)

\* log_interaction raised, and chat returned its answer
C9_Witness ==
    TurnEnded /\ outcome = "returned" /\ logged = <<>> /\ returned = <<TXT, AMP>>

\* C10: right after the turn-start prune the history holds at most
\* 1 + 2 * max_history messages.
C10_TurnStartBound ==
    (pc = "generating" /\ gens = 0) => Len(messages) <= 1 + 2 * max_history

\* no user message of history h is genuine
NoGenuineUser(h) ==
    \A i \in 1..Len(h) :
        h[i].role = "user" => StartsWith(Strip(h[i].content), <<TOOL_RESP_OPEN>>)

\* i is the index of the most recent genuine user message of history h
IsLastGenuine(h, i) ==
    /\ i \in 1..Len(h)
    /\ h[i].role = "user"
    /\ ~StartsWith(Strip(h[i].content), <<TOOL_RESP_OPEN>>)
    /\ NoGenuineUser(SubSeq(h, i + 1, Len(h)))

\* C13: in what _prune_history_for_api returns, no assistant message before
\* the most recent genuine user message holds a complete reasoning block.
C13_NoThinkBeforeLastUser ==
    p_pc = "done" =>
        \A u \in 1..Len(p_out) : IsLastGenuine(p_out, u) =>
            \A i \in 1..(u - 1) :
                p_out[i].role = "assistant" => ~HasThinkBlock(p_out[i].content)

\* C14: _prune_history_for_api returns as many messages as it was given,
\* and every message at or after the most recent genuine user message, and
\* every message that is not an assistant message, is equal to its input.
C14_CurrentTurnUntouched ==
    p_pc = "done" =>
        /\ Len(p_out) = Len(p_hist)
        /\ \A i \in 1..Len(p_hist) :
               (\/ p_hist[i].role # "assistant"
                \/ \E u \in 1..i : IsLastGenuine(p_hist, u))
                   => p_out[i] = p_hist[i]

\* a reasoning block of the turn in progress was kept while one of an
\* earlier turn was stripped
C14_Witness ==
    /\ p_pc = "done"
    /\ Len(p_hist) = 3
    /\ IsLastGenuine(p_hist, 2)
    /\ p_hist[3].role = "assistant" /\ HasThinkBlock(p_hist[3].content)
    /\ p_out[3] = p_hist[3]
    /\ p_out[1] # p_hist[1]

\* C16: _prune_history_for_api is idempotent: pruning what it returned
\* changes nothing.
C16_PruneIdempotent == p_pc = "again" => p_out = p_hist

\* C17: a history without a genuine user message is returned unchanged.
C17_NoUserNoChange == (p_pc = "done" /\ NoGenuineUser(p_hist)) => p_out = p_hist

\* a history of an assistant message with a reasoning block and a wrapped
\* tool result in a user message: returned as it was
C17_Witness ==
    /\ p_pc = "done"
    /\ Len(p_hist) = 2
    /\ p_hist[1].role = "assistant" /\ HasThinkBlock(p_hist[1].content)
    /\ p_hist[2].role = "user"
    /\ NoGenuineUser(p_hist)
    /\ p_out = p_hist

\* a primary LLM call is made in this step
PrimaryCallStep == calls' # calls

\* the messages of a history that reach the wire: the leading system
\* message and messages of unknown roles are left out
OnTheWire(h) == SelectSeq(h, LAMBDA m : m.role \in {"tool", "assistant", "user"})

\* a transmitted prompt without its system messages
PromptBody(pr) == SelectSeq(pr, LAMBDA m : m.role # "system")

HasMemorySynthesis(pr) == \E j \in 1..Len(pr) : pr[j].name = "memory_synthesis"

\* C11: right after the in-loop prune that follows appending the assistant
\* message and k tool results, the history holds at most 1 + 3*max_history
\* + k messages, and a history that was longer has become its first message
\* followed by its last 3*max_history + k messages.
C11_InLoopPruneBound ==
    [][ (pc = "dispatching" /\ pc' = "generating") =>
            LET k == Len(appended') - 1
                before == messages \o appended'
                keep == 3 * max_history + k
            IN  /\ k >= 1
                /\ Len(messages') <= 1 + keep
                /\ Len(before) > 1 + keep =>
                       messages' = <<before[1]>> \o
                                   SubSeq(before, Len(before) - keep + 1, Len(before))
                /\ Len(before) <= 1 + keep => messages' = before ]_vars

\* with max_history 0 a pass with two tool results has left the system
\* message and the two results
C11_Witness ==
    /\ pc = "generating" /\ gens >= 1
    /\ max_history = 0
    /\ Len(appended) = 3
    /\ Len(messages) = 3
    /\ messages[2].role = "tool" /\ messages[3].role = "tool"

\* C12: self.messages is never empty and its first message is the system
\* message created at construction.
C12_SystemMessageFirst ==
    /\ messages # <<>>
    /\ messages[1] = Msg("system", <<SYSTEM_PROMPT>>)

\* the second turn's prune has dropped the first user message
C12_Witness ==
    /\ turns = 2 /\ pc = "generating" /\ gens = 0
    /\ max_history = 1
    /\ Len(messages) = 3
    /\ messages[2].role = "assistant"

\* C15: a call of _get_llm_response leaves self.messages as it was: same
\* length, same messages, reasoning blocks included.
C15_PromptLeavesHistory ==
    [][ PrimaryCallStep => (prompt' # <<>> /\ messages' = messages) ]_vars

\* a prompt went out without the reasoning block that the history still
\* holds in an assistant message of an earlier turn
C15_Witness ==
    /\ pc = "dispatching"
    /\ turns = 2
    /\ \E i \in 1..Len(messages) :
           /\ messages[i].role = "assistant"
           /\ HasThinkBlock(messages[i].content)
           /\ \E u \in (i + 1)..Len(messages) : IsLastGenuine(messages, u)
    /\ \A j \in 1..Len(prompt) : ~HasThinkBlock(prompt[j].content)

\* C18: no message of a transmitted prompt has role tool; the messages of
\* the history reach the wire in their order, and each tool result does so
\* as a user message whose content is the result inside the tool-response
\* envelope.
C18_ToolResultsAsUser ==
    [][ PrimaryCallStep =>
            LET wire == OnTheWire(messages)
                body == PromptBody(prompt')
            IN  /\ \A j \in 1..Len(prompt') : prompt'[j].role # "tool"
                /\ Len(body) = Len(wire)
                /\ \A i \in 1..Len(wire) :
                       IF wire[i].role = "tool"
                       THEN /\ body[i].role = "user"
                            /\ Len(body[i].content) >= 4
                            /\ SubSeq(body[i].content, 1, 2) = <<TOOL_RESP_OPEN, NEWLINE>>
                            /\ SubSeq(body[i].content, Len(body[i].content) - 1,
                                      Len(body[i].content)) = <<NEWLINE, TOOL_RESP_CLOSE>>
                            /\ StartsWith(SubSeq(body[i].content, 3,
                                                 Len(body[i].content) - 2),
                                          Strip(wire[i].content))
                       ELSE body[i].role = wire[i].role ]_vars

\* the second prompt of a turn carries the first pass's tool result
C18_Witness ==
    /\ pc = "dispatching" /\ gens = 2
    /\ \E i \in 1..Len(messages) : messages[i].role = "tool"
    /\ \E j \in 1..Len(prompt) :
           /\ prompt[j].role = "user"
           /\ StartsWith(prompt[j].content, <<TOOL_RESP_OPEN>>)

\* C19: when both pre-queries return empty lists _invoke_memory_reasoning_llm
\* is not called in the turn and no prompt of the turn carries a
\* memory_synthesis system message; when both return and either list is
\* non-empty it is called.
C19_MemoryReasoningGate ==
    [][ /\ (doc_snippets' = "empty" /\ convo_snippets' = "empty")
               => (pc' = "generating" /\ synth' = <<>>)
        /\ (/\ doc_snippets' \in {"empty", "some"}
            /\ convo_snippets' \in {"empty", "some"}
            /\ "some" \in {doc_snippets', convo_snippets'})
               => pc' = "mem_llm"
        /\ (pc' = "mem_llm" /\ pc # "mem_llm")
               => (pc = "idle" /\ "some" \in {doc_snippets', convo_snippets'})
        /\ (synth' # synth /\ synth' # <<>>) => pc = "mem_finish"
        /\ pc' = "mem_finish" => pc = "mem_llm"
        /\ HasMemorySynthesis(prompt') => synth' # <<>> ]_vars

\* both pre-queries came back empty and chat went on to the primary LLM
C19_Witness ==
    /\ doc_snippets = "empty" /\ convo_snippets = "empty"
    /\ pc = "generating" /\ gens = 0
    /\ synth = <<>>

\* C20: when the sub-loop's final text holds the sentinel phrase,
\* _invoke_memory_reasoning_llm returns the empty string, and no prompt of
\* the turn carries a memory_synthesis system message.
C20_SentinelMeansNoContext ==
    [][ /\ (pc = "mem_finish" /\ Contains(final_synthesis, SENTINEL)) => synth' = <<>>
        /\ (pc \notin {"idle", "mem_finish"}) => synth' = synth
        /\ (HasMemorySynthesis(prompt') /\ prompt' # prompt) => Strip(synth) # <<>> ]_vars

\* the sub-loop ended on the sentinel and chat holds an empty context
C20_Witness ==
    /\ pc = "generating" /\ gens = 0
    /\ Contains(final_synthesis, SENTINEL)
    /\ synth = <<>>

\* the step in which _invoke_memory_reasoning_llm returns to chat
MemReturnStep == pc = "mem_finish" /\ pc' = "generating"

\* the sub-loop left its for loop through the else clause
MemCapReached == pc = "mem_finish" /\ mem_iter = max_mem_reasoning_iterations

\* C21: on every exit path of _invoke_memory_reasoning_llm (normal
\* completion, iteration cap, API error, unexpected error) and for either
\* value of DEBUG, the text it returns holds no complete tool-call block, and
\* neither does the memory_synthesis message of a prompt built from it.
C21_NoToolCallInSynthesis ==
    /\ Matches(synth) = <<>>
    /\ \A j \in 1..Len(prompt) :
           prompt[j].name = "memory_synthesis" => Matches(prompt[j].content) = <<>>

\* with DEBUG off the sub-loop ran to its cap on answers that were tool-call
\* blocks, and its text went into the first prompt of the turn
C21_Witness ==
    /\ ~DEBUG
    /\ pc \in {"dispatching", "finalizing"} /\ gens = 1
    /\ synth = <<ERR_MEM_MAX_ITER>>
    /\ HasMemorySynthesis(prompt)

\* C22, as stated: a sub-loop that ends by reaching its maximum iteration
\* count has the text of the last assistant message of the sub-dialogue for
\* its synthesis.
C22_CapUsesLastAssistantText ==
    MemCapReached => final_synthesis = LastAssistantText(mem_messages)

\* C23, as stated: every return of _invoke_memory_reasoning_llm has called
\* log_reasoning_trace exactly once, with the whole sub-dialogue, the type
\* memory_reasoner_dialogue and the user's query.
C23_TraceLoggedOnEveryReturn ==
    [][ MemReturnStep =>
            /\ Len(trace_call') = 1
            /\ trace_call'[1].reasoning_messages = mem_messages
            /\ trace_call'[1].trace_type = "memory_reasoner_dialogue"
            /\ trace_call'[1].related_query = user_input ]_vars

\* the positions of token t in s
PositionsOf(s, t) == { i \in 1..Len(s) : s[i] = t }

\* the reasoning rule in words: what follows the last closing marker, else
\* what precedes the first opening marker, else the text
WithoutReasoning(s) ==
    LET closes == PositionsOf(s, THINK_CLOSE)
        opens == PositionsOf(s, THINK_OPEN)
    IN  IF closes # {}
        THEN SubSeq(s, (CHOOSE i \in closes : \A j \in closes : j <= i) + 1, Len(s))
        ELSE IF opens # {}
        THEN SubSeq(s, 1, (CHOOSE i \in opens : \A j \in opens : i <= j) - 1)
        ELSE s

\* s without the tokens that stand inside a complete tool-call block
RECURSIVE KeepOutside(_, _, _)
KeepOutside(s, ms, i) ==
    IF i > Len(s) THEN <<>>
    ELSE (IF \E k \in 1..Len(ms) : ms[k].lo <= i /\ i <= ms[k].hi THEN <<>> ELSE <<s[i]>>)
         \o KeepOutside(s, ms, i + 1)

WithoutToolCalls(s) == KeepOutside(s, Matches(s), 1)

\* trimming and control-token removal
TrimmedWithoutControl(s) == Strip(SelectSeq(s, LAMBDA t : t \notin {IM_END, IM_START}))

\* C24: the final-answer cleaning keeps what follows the last closing
\* reasoning marker if there is one; otherwise it drops everything from the
\* first opening marker on (the whole text when it starts with the marker);
\* then it deletes every complete tool-call block that is left.  A text
\* without a marker comes back unchanged but for trimming and the removal of
\* control tokens.
C24_CleaningRule ==
    c_pc = "done" =>
        /\ c_out = TrimmedWithoutControl(WithoutToolCalls(WithoutReasoning(c_text)))
        /\ (/\ PositionsOf(c_text, THINK_CLOSE) = {}
            /\ StartsWith(Strip(c_text), <<THINK_OPEN>>)) => c_out = <<>>
        /\ (/\ PositionsOf(c_text, THINK_CLOSE) = {}
            /\ PositionsOf(c_text, THINK_OPEN) = {}
            /\ Matches(c_text) = <<>>) => c_out = TrimmedWithoutControl(c_text)

\* a text with two closing markers was cleaned down to what follows the
\* second
C24_Witness ==
    /\ c_pc = "done"
    /\ c_text = <<THINK_CLOSE, TXT, THINK_CLOSE, TXT>>
    /\ c_out = <<TXT>>

\* C25, as stated: a turn that returns has called log_interaction once, with
\* the user's input and with the very text that chat returns.
C25_LoggedTextIsReturnedText ==
    (TurnEnded /\ outcome = "returned") =>
        /\ Len(logged) <= 1
        /\ \A i \in 1..Len(logged) :
               /\ logged[i].user_utterance = user_input
               /\ logged[i].agent_response = returned

\* the agents that declare the tool name n, by position in self.agents
DeclaredBy(n) ==
    { i \in 1..Len(k_agents) :
          \E j \in 1..Len(k_agents[i].schemas) : k_agents[i].schemas[j].name = n }

\* the tool names some agent declares
DeclaredNames ==
    { n \in SchemaNames : Truthy(n) /\ DeclaredBy(n) # {} }

\* after _collect_all_tool_schemas the map holds the declared names, each
\* with the last agent that declared it
LastAgentWins ==
    k_pc = "done" =>
        /\ DOMAIN k_tool_to_agent_map = DeclaredNames
        /\ \A n \in DeclaredNames :
               k_tool_to_agent_map[n] =
                   k_agents[CHOOSE i \in DeclaredBy(n) : \A j \in DeclaredBy(n) : j <= i].agent_name

\* C26, as stated: after _collect_all_tool_schemas every tool name maps to
\* the last agent that declared it, and all_tool_schemas holds exactly one
\* descriptor per tool name.
C26_OneDescriptorPerName ==
    k_pc = "done" =>
        /\ LastAgentWins
        /\ \A n \in DeclaredNames :
               Cardinality({ p \in 1..Len(k_all_tool_schemas) :
                                 k_all_tool_schemas[p].name = n }) = 1

\* the value the calls of h leave for (uid, key): that of the last store not
\* followed by a delete, None when there is none
RECURSIVE LastStored(_, _, _)
LastStored(h, key, uid) ==
    IF h = <<>> THEN PyNone
    ELSE LET c == h[Len(h)]
         IN  IF c.key = key /\ c.user_id = uid
             THEN (IF c.op = "store" THEN c.value ELSE PyNone)
             ELSE LastStored(SubSeq(h, 1, Len(h) - 1), key, uid)

\* what get_preference returns for every user and key
PrefMapping(rows) ==
    [uid \in {DEFAULT_USER_ID, "henry"}, key \in PrefKeys |-> SelectValue(rows, key, uid)]

\* C27: the preference store is insert-or-update by (user_id, key) with
\* last-write-wins: after any sequence of store_preference and
\* delete_preference calls the table holds at most one row per (user_id, key)
\* and get_preference returns the value of the last store for the pair that
\* no delete followed (None when there is none); a store_preference that
\* repeats the call before it leaves the stored mapping as it is.
C27_LastWriteWins ==
    [][ s_pc' = "ready" =>
          /\ \A r1 \in user_preferences', r2 \in user_preferences' :
                 (r1.user_id = r2.user_id /\ r1.key = r2.key) => r1 = r2
          /\ \A uid \in {DEFAULT_USER_ID, "henry"}, key \in PrefKeys :
                 SelectValue(user_preferences', key, uid) = LastStored(s_hist', key, uid)
          /\ (/\ Len(s_hist') >= 2
              /\ s_hist' # s_hist
              /\ s_hist'[Len(s_hist')].op = "store"
              /\ s_hist'[Len(s_hist')] = s_hist[Len(s_hist)])
                 => (/\ PrefMapping(user_preferences') = PrefMapping(user_preferences)
                     /\ user_preferences' = user_preferences) ]_vars

\* a preference stored twice with different values holds the second in its
\* one row
C27_Witness ==
    /\ s_pc = "ready"
    /\ Len(s_hist) = 2
    /\ s_hist[1] = [op |-> "store", key |-> "theme", value |-> "dark", user_id |-> DEFAULT_USER_ID]
    /\ s_hist[2] = [op |-> "store", key |-> "theme", value |-> "light", user_id |-> DEFAULT_USER_ID]
    /\ Cardinality(user_preferences) = 1
    /\ s_ret = "light"

\* the number of system messages in a prompt
SystemCount(pr) == Len(SelectSeq(pr, LAMBDA m : m.role = "system"))

\* C28: every prompt that _get_llm_response transmits is one fresh system
\* prompt, then, if and only if the synthesized context is not empty after
\* trimming, exactly one system message named memory_synthesis, then the
\* user, assistant and tool messages of the pruned history in their order;
\* the system message stored at the head of the history is not transmitted.
C28_PromptForm ==
    [][ PrimaryCallStep =>
            LET hint == IF Strip(synth) # <<>> THEN 1 ELSE 0
                wire == OnTheWire(PruneHistoryForApi(messages))
                body == SubSeq(prompt', 2 + hint, Len(prompt'))
            IN  /\ messages[1].role = "system"
                /\ Len(prompt') = 1 + hint + Len(wire)
                /\ prompt'[1] = ApiMsg("system", <<SYSTEM_PROMPT>>, "")
                /\ hint = 1 =>
                       /\ prompt'[2].role = "system"
                       /\ prompt'[2].name = "memory_synthesis"
                       /\ prompt'[2].content = <<HINT_HEAD>> \o Strip(synth) \o <<HINT_TAIL>>
                /\ SystemCount(prompt') = 1 + hint
                /\ Cardinality({ j \in 1..Len(prompt') :
                                     prompt'[j].name = "memory_synthesis" }) = hint
                /\ \A i \in 1..Len(wire) :
                       /\ body[i].name = ""
                       /\ IF wire[i].role = "tool"
                          THEN /\ body[i].role = "user"
                               /\ body[i].content = ToolResponseEnvelope(wire[i].content)
                          ELSE /\ body[i].role = wire[i].role
                               /\ body[i].content = wire[i].content ]_vars

\* the second prompt of a turn went out with the memory hint after the system
\* prompt and with the turn's user message, assistant message and tool result
C28_Witness ==
    /\ pc = "dispatching" /\ gens = 2
    /\ Len(prompt) >= 5
    /\ prompt[1].role = "system" /\ prompt[1].name = ""
    /\ prompt[2].name = "memory_synthesis"
    /\ prompt[3].role = "user"
    /\ prompt[4].role = "assistant"
    /\ StartsWith(prompt[5].content, <<TOOL_RESP_OPEN>>)

\* the answers whose reasoning field holds a tool-call block
ReasoningWithBlock ==
    { r \in LLMResponses : r.reasoning # NoneValue /\ Matches(r.reasoning) # <<>> }

\* C29: a tool-call block that stands only in the reasoning field of an
\* answer causes no tool dispatch and does not keep the loop going: the copy
\* that is parsed for tool calls is the content field alone, a pass whose
\* parsed copy holds no block executes nothing and ends the loop, and the
\* copy for the history has the reasoning in front as a <think> block.
C29_ReasoningNeverDispatched ==
    [][ /\ PrimaryCallStep =>
               \/ cur_text' = cur_content' /\ cur_text'[1] \in LLMErrorHeads
               \/ \E r \in LLMResponses :
                      /\ cur_content' = r.content
                      /\ cur_text' = TextForHistory(r.content, r.reasoning)
                      /\ r \in ReasoningWithBlock =>
                             /\ StartsWith(cur_text', <<THINK_OPEN>>)
                             /\ Matches(cur_text') # <<>>
                             /\ RFindFrom(cur_text', THINK_CLOSE, Len(cur_text'))
                                    > Matches(cur_text')[1].hi
        /\ (pc = "dispatching" /\ Matches(cur_content) = <<>>) =>
               /\ handled'.executed = <<>>
               /\ handled'.results = <<>>
               /\ pc' # "generating"
               /\ calls' = calls
               /\ pc' = "finalizing" =>
                      /\ messages'[Len(messages')].role = "assistant"
                      /\ messages'[Len(messages')].content = cur_text
                      /\ ~messages'[Len(messages')].has_tool_calls ]_vars

\* an answer with plain content and a tool-call block in its reasoning ended
\* the turn's loop at once: nothing was executed, and the history holds the
\* block inside a <think> block
C29_Witness ==
    /\ pc = "finalizing" /\ ~cap_reached /\ gens = 1
    /\ cur_content = <<TXT>>
    /\ Matches(cur_text) # <<>>
    /\ StartsWith(cur_text, <<THINK_OPEN>>)
    /\ handled.executed = <<>>
    /\ messages[Len(messages)].content = cur_text

\* the names of the blocks of text that have an agent, in document order
RECURSIVE MappedNames(_, _)
MappedNames(text, ms) ==
    IF ms = <<>> THEN <<>>
    ELSE (IF ResultName(Group1(text, Head(ms))) \in DOMAIN tool_to_agent_map
          THEN <<ResultName(Group1(text, Head(ms)))>> ELSE <<>>)
         \o MappedNames(text, Tail(ms))

\* the last n messages of h
LastMessages(h, n) == SubSeq(h, Len(h) - n + 1, Len(h))

\* C30: within a turn the steps follow one another: the tool handlers of one
\* response run in document order, a handler that raises ends the pass
\* before any later one runs, and a further primary LLM call is made only
\* when every tool call of the previous response has been executed and its
\* result stands in the canonical history, in the same order.
C30_StrictlySequential ==
    [][ /\ (pc = "dispatching" /\ pc' = "generating") =>
               /\ handled'.exc = ""
               /\ handled'.results # <<>>
               /\ AnswersInOrder(cur_content, handled'.results)
               /\ handled'.executed = MappedNames(cur_content, Matches(cur_content))
               /\ Len(messages') >= Len(handled'.results)
               /\ LastMessages(messages', Len(handled'.results)) = handled'.results
               /\ calls' = calls
        /\ (pc = "dispatching" /\ handled'.exc # "") =>
               /\ pc' = "idle"
               /\ calls' = calls
               /\ messages' = messages
               /\ cur_content # NoneValue
                      => Len(handled'.results) < Len(Matches(cur_content))
               /\ \A i \in 1..Len(handled'.results) :
                      handled'.results[i].name
                          = ResultName(Group1(cur_content, Matches(cur_content)[i]))
        /\ (PrimaryCallStep /\ gens >= 1) =>
               /\ pc = "generating"
               /\ handled.exc = ""
               /\ AnswersInOrder(cur_content, handled.results)
               /\ LastMessages(messages, Len(handled.results)) = handled.results
               /\ LastMessages(prompt', Len(handled.results))
                      = [i \in 1..Len(handled.results) |->
                             ApiMsg("user", ToolResponseEnvelope(handled.results[i].content), "")]
        /\ (PrimaryCallStep /\ gens = 0) => pc = "generating" /\ handled = HandleStart ]_vars

\* the second primary call of a turn was made with the results of both tool
\* calls of the first response at the end of the history, in document order
C30_Witness ==
    /\ pc = "dispatching" /\ gens = 2
    /\ Len(handled.results) = 2
    /\ handled.results[1].name = "get_env"
    /\ handled.results[2].name = "foo"
    /\ handled.executed = <<"get_env">>
    /\ LastMessages(messages, 2) = handled.results

PrefUsers == { DEFAULT_USER_ID, "henry" }

\* what get_preference and get_all_preferences return for user uid
ViewOf(rows, uid) ==
    [all |-> SelectAll(rows, uid),
     one |-> [key \in PrefKeys |-> SelectValue(rows, key, uid)]]

\* C31: preferences are isolated per user: a store_preference or
\* delete_preference for one user changes nothing of what get_preference and
\* get_all_preferences return for any other user, and a call without user_id
\* acts on the manager's default user and on no other.
C31_UsersIsolated ==
    [][ /\ \A key \in PrefKeys, value \in PrefValues, user_id \in UserIdArgs :
               StorePreference(key, value, user_id, "ok") =>
                   /\ \A b \in PrefUsers \ {ResolveUser(user_id)} :
                          ViewOf(user_preferences', b) = ViewOf(user_preferences, b)
                   /\ s_conn = "open" =>
                          SelectValue(user_preferences', key,
                              IF user_id = PyNone THEN DEFAULT_USER_ID ELSE user_id) = value
        /\ \A key \in PrefKeys, user_id \in UserIdArgs :
               DeletePreference(key, user_id, "ok") =>
                   /\ \A b \in PrefUsers \ {ResolveUser(user_id)} :
                          ViewOf(user_preferences', b) = ViewOf(user_preferences, b)
                   /\ SelectValue(user_preferences', key,
                          IF user_id = PyNone THEN DEFAULT_USER_ID ELSE user_id) = PyNone
        /\ \A r \in user_preferences' : r.user_id \in PrefUsers
        /\ \A user_id \in UserIdArgs :
               (GetAllPreferences(user_id, "ok") /\ s_conn = "open") =>
                   s_all'.prefs = SelectAll(user_preferences,
                       IF user_id = PyNone THEN DEFAULT_USER_ID ELSE user_id) ]_vars

\* both users hold a value under the same key, the default user's stored by
\* a call without user_id, and get_all_preferences for henry shows henry's
C31_Witness ==
    /\ s_pc = "ready"
    /\ SelectValue(user_preferences, "theme", DEFAULT_USER_ID) = "dark"
    /\ SelectValue(user_preferences, "theme", "henry") = "light"
    /\ s_all = [kind |-> "dict", prefs |-> {[key |-> "theme", value |-> "light"]}]

C33_PromptHoldsUserMessage ==
    prompt # <<>> => \E j \in 1..Len(prompt) : prompt[j] = ApiMsg("user", user_input, "")

\* C34, as stated: a turn in which every LLM call came back as a 2xx answer
\* with valid JSON does not raise: chat returns a string.
C34_ChatNeverRaises ==
    (TurnEnded /\ llm_failed = 0) => outcome = "returned"

\* C35, as stated: when the loop of a turn is over, the last response
\* received stands in the history as the assistant message at its end, also
\* when the loop ended by reaching the iteration cap.
C35_EveryResponseAppended ==
    pc = "finalizing" =>
        /\ messages[Len(messages)].role = "assistant"
        /\ messages[Len(messages)].content = cur_text

\* the memory_synthesis messages of a prompt
HintOf(pr) == SelectSeq(pr, LAMBDA m : m.name = "memory_synthesis")

\* C36: the memory-reasoning sub-loop is entered at most once in a turn, from
\* the start of chat and before the first primary LLM call; what it returned
\* stays as it is for the rest of the turn and goes into every primary call,
\* so all prompts of a turn carry the same memory_synthesis hint or none.
C36_OneSynthesisPerTurn ==
    [][ /\ (pc' = "mem_llm" /\ pc # "mem_llm") => (pc = "idle" /\ gens' = 0)
        /\ pc \in {"mem_llm", "mem_finish"} => (gens = 0 /\ calls' = calls)
        /\ pc \in {"generating", "dispatching", "finalizing"}
               => (pc' \notin {"mem_llm", "mem_finish"} /\ synth' = synth)
        /\ PrimaryCallStep =>
               /\ HintOf(prompt') =
                      (IF Strip(synth) # <<>>
                       THEN <<ApiMsg("system",
                                     <<HINT_HEAD>> \o Strip(synth) \o <<HINT_TAIL>>,
                                     "memory_synthesis")>>
                       ELSE <<>>)
               /\ gens >= 1 => HintOf(prompt') = HintOf(prompt) ]_vars

\* the second and the first prompt of a turn carried the hint made from the
\* sub-loop's synthesis
C36_Witness ==
    /\ pc = "dispatching" /\ gens = 2
    /\ synth = <<TXT>>
    /\ HintOf(prompt) = <<ApiMsg("system", <<HINT_HEAD, TXT, HINT_TAIL>>, "memory_synthesis")>>

\* C37, as stated: no prompt carries a failure diagnostic of the
\* memory-reasoning sub-loop as its memory_synthesis hint.
C37_NoFailureDiagnosticAsHint ==
    \A j \in 1..Len(prompt) :
        prompt[j].name = "memory_synthesis" =>
            /\ ~Contains(prompt[j].content, ERR_MEM_API)
            /\ ~Contains(prompt[j].content, ERR_MEM_UNEXPECTED)

MemSearchTools == { "search_past_conversations", "search_documents" }

\* C38: the memory-reasoning sub-loop is isolated from the main loop: its
\* tool calls are answered by the two MemoryManager searches or, for any
\* other name, by the 'not recognized' error, never by an agent of
\* tool_to_agent_map; its dialogue starts from its own system prompt and the
\* user's query, and a step of the sub-loop leaves self.messages as it is.
C38_SubLoopIsolated ==
    [][ pc = "mem_llm" =>
            /\ messages' = messages
            /\ Len(mem_messages') >= 2
            /\ mem_messages'[1] = Msg("system", <<MEM_SYSTEM_PROMPT>>)
            /\ mem_messages'[2] = Msg("user", <<MEM_QUERY_PREFIX>> \o user_input)
            /\ \A i \in 3..Len(mem_messages') :
                   LET m == mem_messages'[i]
                   IN  /\ m.role \in {"assistant", "tool"}
                       /\ m.role = "tool" =>
                              IF m.name \in MemSearchTools
                              THEN m.content \in { <<SNIPPETS_JSON>>, <<NO_CONVO_SNIPPETS>>,
                                                   <<NO_DOC_SNIPPETS>> }
                              ELSE m.content \in { <<ERR_MEM_NOT_RECOGNIZED>>,
                                                   <<ERR_MEM_JSON>> } ]_vars

\* the sub-loop answered a search with snippets and a call of get_env, a
\* tool of the main loop, with the 'not recognized' error
C38_Witness ==
    /\ pc \in {"mem_llm", "mem_finish"}
    /\ \E i \in 1..Len(mem_messages) :
           /\ mem_messages[i].role = "tool"
           /\ mem_messages[i].name = "get_env"
           /\ mem_messages[i].content = <<ERR_MEM_NOT_RECOGNIZED>>
    /\ \E i \in 1..Len(mem_messages) :
           /\ mem_messages[i].name = "search_past_conversations"
           /\ mem_messages[i].content = <<SNIPPETS_JSON>>
    /\ messages = << Msg("system", <<SYSTEM_PROMPT>>), Msg("user", user_input) >>

\* the sub-loop's call was answered, and the answer holds a tool-call block
MemAnswerAsksForTools ==
    /\ Len(mem_messages') > Len(mem_messages)
    /\ LET a == mem_messages'[Len(mem_messages) + 1]
       IN  a.role = "assistant" /\ Matches(a.content) # <<>>

\* C39: an invocation of _invoke_memory_reasoning_llm makes at most
\* max_mem_reasoning_iterations LLM calls: a call is made only while fewer
\* than the maximum are counted, each call either ends the loop or is
\* counted, the loop goes on to another call only after an answer that holds
\* a tool-call block (so the first answer without one and the first failed
\* call end it), and once ended the invocation returns without another call.
C39_SubLoopBounded ==
    [][ /\ pc = "mem_llm" =>
               /\ mem_iter < MaxMemIter
               /\ \/ pc' = "mem_finish" /\ mem_iter' = mem_iter
                  \/ pc' = "mem_finish" /\ mem_iter' = MaxMemIter
                  \/ /\ pc' = "mem_llm"
                     /\ mem_iter' = mem_iter + 1
                     /\ MemAnswerAsksForTools
        /\ pc = "mem_finish" => pc' = "generating" ]_vars

\* the sub-loop made its last permitted call, which asked for tools again,
\* and ended at the cap
C39_Witness ==
    /\ MemCapReached
    /\ Len(SelectSeq(mem_messages, LAMBDA m : m.role = "assistant")) = MaxMemIter

====
